---- MODULE Spec2Model ----
\* Model of the libp2p node service: message routing between the broadcast
\* topic / direct streams and the local HTTP sink (node_service.go), the
\* HTTP controller (controller.go), the public-key resolver, the DID codec
\* (libp2p_utils.go) and the process lifecycle (main.go).
EXTENDS Integers, Sequences, FiniteSets, TLC

VARIABLES
    \* ---- message router (node_service.go) ----
    did,        \* did[n]: the identity string of node n (Libp2pNodeService.did)
    msgs,       \* messages the topic "sight-message" has delivered, in order
    rd,         \* rd[n]: how many messages node n's drain loop has taken
    dpc,        \* dpc[n]: position of node n's handleIncomingMessages loop
    dlog,       \* dlog[n]: what the loop did with each message it took
    sink,       \* sink[n]: the POSTs issued to node n's tunnel API, in order
    http,       \* the /libp2p/send requests served so far
    \* ---- direct streams (node_service.go) ----
    streams,    \* inbound streams on /test/0.0.1 and their handler tasks
    \* ---- public-key resolver (node_service.go) ----
    peerstore,  \* peers whose public key the host's peerstore holds
    conns,      \* peers the host is connected to
    req,        \* the GetPublicKeyByPeerId call in progress (or finished)
    nreq,       \* number of GetPublicKeyByPeerId calls made
    \* ---- DID codec (libp2p_utils.go) ----
    dkey,       \* the public key bytes given to the codec
    dpayload,   \* the bytes that were base58-encoded into the DID text
    dstr,       \* the DID text
    dsrc,       \* how the DID text was made
    dout,       \* what DIDToPublicKey returned for the DID text
    dstep,      \* position of the codec run
    \* ---- process lifecycle (main.go) ----
    mpc,        \* position of main
    spc,        \* position of the goroutine that runs srv.ListenAndServe
    host,       \* the libp2p host: "open" or "closed"
    drain,      \* the handleIncomingMessages goroutine: "running" or "dead"
    inflight,   \* HTTP requests being served
    accepted,   \* HTTP requests accepted so far
    late,       \* HTTP requests accepted after the host was closed
    steps,      \* the shutdown steps main has made, in order
    exit,       \* the exit code of the process, "none" while it runs
    \* ---- outbound calls (node_service.go) ----
    oc,         \* the outbound call in progress (or finished)
    nout,       \* number of outbound calls made
    octx,       \* the context of the call: "none", "live" or "expired"
    oconn,      \* peers the host has connected to for outbound calls
    ostreams,   \* the streams the host has opened, in order
    \* ---- HTTP router (main.go) ----
    hreq,       \* the HTTP requests the router has dispatched, in order
    \* ---- keypair store (libp2p_utils.go) ----
    kfile,      \* the key file: whether it exists, is readable, and its content
    kdir,       \* whether the key directory can be accessed: "ok" or "noaccess"
    kruns,      \* the LoadOrGenerateKeypair calls made (one per process start)
    kclock,     \* the time, in ticks
    \* ---- bootstrap mesh (bootstrap main) ----
    nexcl,      \* the exclude argument of randomNeighbors
    ndraws,     \* the random numbers rand.Shuffle has drawn so far
    nres,       \* the list randomNeighbors returned
    npc,        \* position of the randomNeighbors call
    mi,         \* the bootstrap node whose neighbors are being connected
    mnbrs,      \* the neighbors selected for node mi
    mk,         \* how many of them have been attempted
    mfail,      \* whether an earlier connect attempt failed
    mstate,     \* position of the bootstrap main
    mtried,     \* the nodes h.Connect was called with for node mi, in order
    \* ---- services (NewLibp2pNodeService) ----
    svc         \* svc[n]: node n's service: its arguments, identity and keypair

routerVars == <<did, msgs, rd, dpc, dlog, sink, http>>
directVars == <<streams>>
resolverVars == <<peerstore, conns, req, nreq>>
didVars == <<dkey, dpayload, dstr, dsrc, dout, dstep>>
mainVars == <<mpc, spc, host, drain, inflight, accepted, late, steps, exit>>
outVars == <<oc, nout, octx, oconn, ostreams>>
apiVars == <<hreq>>
keyVars == <<kfile, kdir, kruns, kclock>>
meshVars == <<nexcl, ndraws, nres, npc, mi, mnbrs, mk, mfail, mstate, mtried>>
svcVars == <<svc>>

vars == <<routerVars, directVars, resolverVars, didVars, mainVars, outVars, apiVars, keyVars, meshVars, svcVars>>

--------------------------------------------------------------------------
\* Bounds of the model.

\* Number of events (HTTP send requests plus publishes by other peers).
MaxEvents == 2
\* Number of inbound direct streams.
MaxStreams == 2
\* Number of GetPublicKeyByPeerId calls.
MaxResolves == 2
\* How far the length of a key given to the DID codec may be from 32 bytes.
MaxLenDelta == 1
\* Number of HTTP requests the server accepts during one run of main.
MaxRequests == 3
\* Number of outbound calls (connect, ping, direct send).
MaxCalls == 2
\* Number of HTTP requests given to the router.
MaxDispatch == 2
\* Number of LoadOrGenerateKeypair calls (process starts).
MaxLoads == 2

--------------------------------------------------------------------------
\* JSON values as Go's encoding/json sees them when decoding into
\* map[string]interface{}: null, a string, or an object whose members are
\* kept in key order (json.Marshal writes map keys sorted).

JNull == [t |-> "null", s |-> "", m |-> <<>>]
JStr(x) == [t |-> "str", s |-> x, m |-> <<>>]
JObj(members) == [t |-> "obj", s |-> "", m |-> members]
Member(key, val) == [k |-> key, v |-> val]

\* Position of a key in the sorted order of the keys the model uses.
KeyOrder == <<"payload", "text", "to">>
KeyRank(key) == CHOOSE i \in 1..Len(KeyOrder) : KeyOrder[i] = key

\* m[key] on a Go map: the member's value, or nil when the key is absent
\* (and on a nil map).
Index(v, key) ==
    IF v.t = "obj" /\ \E i \in 1..Len(v.m) : v.m[i].k = key
    THEN v.m[CHOOSE i \in 1..Len(v.m) : v.m[i].k = key].v
    ELSE JNull

\* Storing a member into a map: a repeated key overwrites.
RECURSIVE PutMember(_, _, _)
PutMember(members, key, val) ==
    IF members = <<>> THEN <<Member(key, val)>>
    ELSE IF Head(members).k = key THEN <<Member(key, val)>> \o Tail(members)
    ELSE IF KeyRank(key) < KeyRank(Head(members).k)
         THEN <<Member(key, val)>> \o members
    ELSE <<Head(members)>> \o PutMember(Tail(members), key, val)

\* The bytes of a JSON text, one token per element.
LBrace == [k |-> "{", v |-> ""]
RBrace == [k |-> "}", v |-> ""]
Colon == [k |-> ":", v |-> ""]
Comma == [k |-> ",", v |-> ""]
NullLit == [k |-> "null", v |-> ""]
StrLit(x) == [k |-> "str", v |-> x]

\* json.Marshal of a value.
RECURSIVE Marshal(_)
RECURSIVE MarshalMembers(_, _)
MarshalMembers(members, i) ==
    IF i > Len(members) THEN <<>>
    ELSE (IF i > 1 THEN <<Comma>> ELSE <<>>)
         \o <<StrLit(members[i].k), Colon>> \o Marshal(members[i].v)
         \o MarshalMembers(members, i + 1)
Marshal(v) ==
    IF v.t = "null" THEN <<NullLit>>
    ELSE IF v.t = "str" THEN <<StrLit(v.s)>>
    ELSE <<LBrace>> \o MarshalMembers(v.m, 1) \o <<RBrace>>

\* The JSON scanner: reads one value starting at token i. The result says
\* whether a value was read, the value, and the position after it.
ScanFail == [ok |-> FALSE, v |-> JNull, nxt |-> 0]
RECURSIVE ScanValue(_, _)
RECURSIVE ScanMembers(_, _, _)
ScanMembers(toks, i, acc) ==
    IF i + 2 > Len(toks) \/ toks[i].k /= "str" \/ toks[i + 1] /= Colon
    THEN ScanFail
    ELSE LET r == ScanValue(toks, i + 2) IN
         IF ~r.ok \/ r.nxt > Len(toks) THEN ScanFail
         ELSE LET acc2 == PutMember(acc, toks[i].v, r.v) IN
              IF toks[r.nxt] = RBrace
              THEN [ok |-> TRUE, v |-> JObj(acc2), nxt |-> r.nxt + 1]
              ELSE IF toks[r.nxt] = Comma
              THEN ScanMembers(toks, r.nxt + 1, acc2)
              ELSE ScanFail
ScanValue(toks, i) ==
    IF i > Len(toks) THEN ScanFail
    ELSE IF toks[i] = NullLit THEN [ok |-> TRUE, v |-> JNull, nxt |-> i + 1]
    ELSE IF toks[i].k = "str" THEN [ok |-> TRUE, v |-> JStr(toks[i].v), nxt |-> i + 1]
    ELSE IF toks[i] = LBrace
    THEN IF i + 1 <= Len(toks) /\ toks[i + 1] = RBrace
         THEN [ok |-> TRUE, v |-> JObj(<<>>), nxt |-> i + 2]
         ELSE ScanMembers(toks, i + 1, <<>>)
    ELSE ScanFail

\* Storing a decoded value into a map[string]interface{}: an object fills
\* the map, null leaves it nil, anything else is an UnmarshalTypeError.
IntoMap(v) ==
    IF v.t \in {"obj", "null"} THEN [err |-> FALSE, v |-> v]
    ELSE [err |-> TRUE, v |-> JNull]

\* json.Unmarshal(data, &map): the whole of data must be one JSON value.
Unmarshal(data) ==
    LET r == ScanValue(data, 1) IN
    IF ~r.ok \/ r.nxt /= Len(data) + 1 THEN [err |-> TRUE, v |-> JNull]
    ELSE IntoMap(r.v)

\* json.NewDecoder(body).Decode(&map): reads the first JSON value of the
\* body and leaves whatever follows it unread.
DecoderDecode(body) ==
    LET r == ScanValue(body, 1) IN
    IF ~r.ok THEN [err |-> TRUE, v |-> JNull]
    ELSE IntoMap(r.v)

--------------------------------------------------------------------------
\* The nodes and the texts they exchange.

\* Two nodes subscribed to the same topic; A also serves its HTTP API.
Node == {"A", "Y"}
HttpNode == {"A"}
IdA == "did:sight:hoster:X"
IdY == "did:sight:hoster:Y"
IdOther == "did:sight:hoster:Z"
NodeDID == [n \in Node |-> IF n = "A" THEN IdA ELSE IdY]

Junk == [k |-> "junk", v |-> ""]
HiObj == <<LBrace, StrLit("text"), Colon, StrLit("hi"), RBrace>>

\* Bodies of POST /libp2p/send requests.
BodyToY == <<LBrace, StrLit("to"), Colon, StrLit(IdY), Comma,
             StrLit("text"), Colon, StrLit("hi"), RBrace>>
BodyToSelf == <<LBrace, StrLit("to"), Colon, StrLit(IdA), Comma,
                StrLit("text"), Colon, StrLit("hi"), RBrace>>
BodyNoTo == HiObj
BodyTruncated == <<LBrace, StrLit("to"), Colon, StrLit(IdY)>>
BodyTrailing == BodyToY \o <<RBrace>>
BodyNull == <<NullLit>>
BodyString == <<StrLit("hi")>>
BodyEmpty == <<>>
Bodies == {BodyToY, BodyToSelf, BodyNoTo, BodyTruncated, BodyTrailing,
           BodyNull, BodyString, BodyEmpty}

\* Data other participants publish on the shared topic.
ExtToY == <<LBrace, StrLit("to"), Colon, StrLit(IdY), Comma,
            StrLit("payload"), Colon>> \o HiObj \o <<RBrace>>
ExtToOther == <<LBrace, StrLit("to"), Colon, StrLit(IdOther), Comma,
                StrLit("payload"), Colon>> \o HiObj \o <<RBrace>>
ExtNoPayload == <<LBrace, StrLit("to"), Colon, StrLit(IdA), RBrace>>
ExtToObject == <<LBrace, StrLit("to"), Colon, LBrace, StrLit("text"), Colon,
                 StrLit(IdY), RBrace, RBrace>>
\* An envelope addressed to Y that carries no payload member.
ExtBare == <<LBrace, StrLit("to"), Colon, StrLit(IdY), RBrace>>
ExtMalformed == <<LBrace, StrLit("to"), Colon, StrLit(IdY), Junk>>
ExtTrailing == ExtToY \o <<RBrace>>
ExtData == {ExtToY, ExtToOther, ExtNoPayload, ExtToObject, ExtMalformed,
            ExtTrailing}

--------------------------------------------------------------------------
\* HTTP controller and outbound broadcast.

\* Variant of HandleOutgoingMessage that publishes again after a failure.
HandleOutgoingMessageRetry(msg, pubOk) ==
    LET data == Marshal(msg) IN
    [attempts |-> IF pubOk THEN <<data>> ELSE <<data, data>>,
     delivered |-> IF pubOk THEN <<data>> ELSE <<>>]

\* HandleOutgoingMessage: marshal the message and hand it to topic.Publish
\* once. pubOk is whether Publish succeeds. The result lists the data handed
\* to Publish and the data the topic then delivers.
HandleOutgoingMessage(msg, pubOk) ==
    LET data == Marshal(msg) IN
    [attempts |-> <<data>>,
     delivered |-> IF pubOk THEN <<data>> ELSE <<>>]

\* The envelope SendHandler builds from the decoded body.
Envelope(tunnelMsg) ==
    JObj(PutMember(PutMember(<<>>, "to", Index(tunnelMsg, "to")),
                   "payload", tunnelMsg))

OkResponse == Marshal(JObj(<<Member("status", JStr("ok"))>>))
InvalidJSON == <<StrLit("Invalid JSON")>>

\* SendHandler's answer to one request: status, response body and what it
\* handed to HandleOutgoingMessage.
SendResult(body, pubOk) ==
    LET d == DecoderDecode(body) IN
    IF d.err
    THEN [status |-> 400, resp |-> InvalidJSON, attempts |-> <<>>,
          delivered |-> <<>>]
    ELSE LET out == HandleOutgoingMessage(Envelope(d.v), pubOk) IN
         [status |-> 200, resp |-> OkResponse, attempts |-> out.attempts,
          delivered |-> out.delivered]

Events == Len(http) + Cardinality({i \in 1..Len(msgs) : msgs[i].src = "ext"})

RECURSIVE Tagged(_, _)
Tagged(datas, src) ==
    IF datas = <<>> THEN <<>>
    ELSE <<[data |-> Head(datas), src |-> src]>> \o Tagged(Tail(datas), src)

\* POST /libp2p/send served by node n.
SendHandler(n, body, pubOk) ==
    /\ Events < MaxEvents
    /\ LET r == SendResult(body, pubOk) IN
       /\ http' = Append(http, [node |-> n, body |-> body, pubOk |-> pubOk,
                                status |-> r.status, resp |-> r.resp,
                                attempts |-> r.attempts])
       /\ msgs' = msgs \o Tagged(r.delivered, "http")
    /\ UNCHANGED <<did, rd, dpc, dlog, sink, directVars, resolverVars, didVars, mainVars, outVars, apiVars, keyVars, meshVars, svcVars>>

\* Another participant of the topic publishes data.
ExternalPublish(data) ==
    /\ Events < MaxEvents
    /\ msgs' = Append(msgs, [data |-> data, src |-> "ext"])
    /\ UNCHANGED <<did, rd, dpc, dlog, sink, http, directVars, resolverVars, didVars, mainVars, outVars, apiVars, keyVars, meshVars, svcVars>>

--------------------------------------------------------------------------
\* Broadcast inbound: the drain loop of handleIncomingMessages.

\* Variant of BroadcastDecision without the recipient check.
BroadcastDecisionNoFilter(self, data) ==
    LET u == Unmarshal(data) IN
    IF u.err THEN [note |-> "invalid", post |-> FALSE, body |-> <<>>]
    ELSE [note |-> "posting", post |-> TRUE,
          body |-> Marshal(Index(u.v, "payload"))]

\* Variant of BroadcastDecision that forwards the envelope, not its payload.
BroadcastDecisionWholeEnvelope(self, data) ==
    LET u == Unmarshal(data) IN
    IF u.err THEN [note |-> "invalid", post |-> FALSE, body |-> <<>>]
    ELSE IF Index(u.v, "to") /= JStr(self)
    THEN [note |-> "skipped", post |-> FALSE, body |-> <<>>]
    ELSE [note |-> "posting", post |-> TRUE, body |-> Marshal(u.v)]

\* What one iteration of the loop does with the data of a message: whether a
\* POST is issued, and its body.
BroadcastDecision(self, data) ==
    LET u == Unmarshal(data) IN
    IF u.err THEN [note |-> "invalid", post |-> FALSE, body |-> <<>>]
    ELSE IF Index(u.v, "to") /= JStr(self)
    THEN [note |-> "skipped", post |-> FALSE, body |-> <<>>]
    ELSE [note |-> "posting", post |-> TRUE,
          body |-> Marshal(Index(u.v, "payload"))]

\* Variant of handleIncomingMessages that takes the next message while the
\* POST for the one before is still outstanding.
handleIncomingMessagesAsync(n) ==
    /\ dpc[n] \in {"next", "posting"}
    /\ rd[n] < Len(msgs)
    /\ LET i == rd[n] + 1
           d == BroadcastDecision(did[n], msgs[i].data) IN
       /\ rd' = [rd EXCEPT ![n] = i]
       /\ IF d.post
          THEN /\ sink' = [sink EXCEPT ![n] =
                              Append(@, [via |-> "broadcast", ref |-> i,
                                         body |-> d.body])]
               /\ dpc' = [dpc EXCEPT ![n] = "posting"]
               /\ UNCHANGED dlog
          ELSE /\ dlog' = [dlog EXCEPT ![n] = Append(@, d.note)]
               /\ UNCHANGED <<sink, dpc>>
    /\ UNCHANGED <<did, msgs, http, directVars, resolverVars, didVars, mainVars, outVars, apiVars, keyVars, meshVars, svcVars>>

\* s.subscribed.Next returns a message; the loop parses it, filters on `to`
\* and issues the POST to the tunnel API.
handleIncomingMessages(n) ==
    /\ dpc[n] = "next"
    /\ rd[n] < Len(msgs)
    /\ LET i == rd[n] + 1
           d == BroadcastDecision(did[n], msgs[i].data) IN
       /\ rd' = [rd EXCEPT ![n] = i]
       /\ IF d.post
          THEN /\ sink' = [sink EXCEPT ![n] =
                              Append(@, [via |-> "broadcast", ref |-> i,
                                         body |-> d.body])]
               /\ dpc' = [dpc EXCEPT ![n] = "posting"]
               /\ UNCHANGED dlog
          ELSE /\ dlog' = [dlog EXCEPT ![n] = Append(@, d.note)]
               /\ UNCHANGED <<sink, dpc>>
    /\ UNCHANGED <<did, msgs, http, directVars, resolverVars, didVars, mainVars, outVars, apiVars, keyVars, meshVars, svcVars>>

\* Variant of PostReturns that issues the POST again when it failed.
PostReturnsRetry(n, ok) ==
    /\ dpc[n] = "posting"
    /\ IF ok
       THEN /\ dpc' = [dpc EXCEPT ![n] = "next"]
            /\ dlog' = [dlog EXCEPT ![n] = Append(@, "forwarded")]
            /\ UNCHANGED sink
       ELSE /\ sink' = [sink EXCEPT ![n] = Append(@, @[Len(@)])]
            /\ UNCHANGED <<dpc, dlog>>
    /\ UNCHANGED <<did, msgs, rd, http, directVars, resolverVars, didVars, mainVars, outVars, apiVars, keyVars, meshVars, svcVars>>

\* Variant of PostReturns in which a failed POST ends the loop.
PostReturnsStops(n, ok) ==
    /\ dpc[n] = "posting"
    /\ dpc' = [dpc EXCEPT ![n] = IF ok THEN "next" ELSE "stopped"]
    /\ dlog' = [dlog EXCEPT ![n] =
                   Append(@, IF ok THEN "forwarded" ELSE "forward_error")]
    /\ UNCHANGED <<did, msgs, rd, sink, http, directVars, resolverVars, didVars, mainVars, outVars, apiVars, keyVars, meshVars, svcVars>>

\* http.Post returns (with or without an error); the loop goes on.
PostReturns(n, ok) ==
    /\ dpc[n] = "posting"
    /\ dpc' = [dpc EXCEPT ![n] = "next"]
    /\ dlog' = [dlog EXCEPT ![n] =
                   Append(@, IF ok THEN "forwarded" ELSE "forward_error")]
    /\ UNCHANGED <<did, msgs, rd, sink, http, directVars, resolverVars, didVars, mainVars, outVars, apiVars, keyVars, meshVars, svcVars>>

\* s.subscribed.Next returns an error; the loop returns.
SubscriptionError(n) ==
    /\ dpc[n] = "next"
    /\ dpc' = [dpc EXCEPT ![n] = "stopped"]
    /\ UNCHANGED <<did, msgs, rd, dlog, sink, http, directVars, resolverVars, didVars, mainVars, outVars, apiVars, keyVars, meshVars, svcVars>>

--------------------------------------------------------------------------
\* Direct-stream inbound: handleDirectIncomingMessage.

\* The node that accepts direct streams in the model.
DirectNode == {"Y"}

\* What remote peers write on a direct stream.
DirectToSelf == ExtToY
DirectToOther == ExtToOther
DirectNoTo == <<LBrace, StrLit("payload"), Colon>> \o HiObj \o <<RBrace>>
DirectNoPayload == <<LBrace, StrLit("to"), Colon, StrLit(IdY), RBrace>>
DirectMalformed == ExtMalformed
DirectData == {DirectToSelf, DirectToOther, DirectNoTo, DirectNoPayload,
               DirectMalformed}

\* Variant of DirectDecision with the recipient check of the broadcast path.
DirectDecisionFiltered(self, data) ==
    LET u == Unmarshal(data) IN
    IF u.err THEN [note |-> "invalid", post |-> FALSE, body |-> <<>>]
    ELSE IF Index(u.v, "to") /= JStr(self)
    THEN [note |-> "skipped", post |-> FALSE, body |-> <<>>]
    ELSE [note |-> "posting", post |-> TRUE,
          body |-> Marshal(Index(u.v, "payload"))]

\* What the handler does with the bytes it read from a stream: whether a
\* POST is issued, and its body. There is no check of `to`.
DirectDecision(self, data) ==
    LET u == Unmarshal(data) IN
    IF u.err THEN [note |-> "invalid", post |-> FALSE, body |-> <<>>]
    ELSE [note |-> "posting", post |-> TRUE,
          body |-> Marshal(Index(u.v, "payload"))]

\* Variant of handleDirectIncomingMessage that reads and forwards on the
\* caller's task: a stream is accepted only when no other task is busy.
handleDirectIncomingMessageInline(n, data) ==
    /\ Len(streams) < MaxStreams
    /\ \A s \in 1..Len(streams) : streams[s].hpc = "done"
    /\ dpc[n] /= "posting"
    /\ streams' = Append(streams,
          [node |-> n, pending |-> data, remote |-> "open", buf |-> <<>>,
           hpc |-> "reading", closes |-> 0, note |-> "none"])
    /\ UNCHANGED <<routerVars, resolverVars, didVars, mainVars, outVars, apiVars, keyVars, meshVars, svcVars>>

\* The host accepts a stream and calls handleDirectIncomingMessage, which
\* starts the handler task and returns.
handleDirectIncomingMessage(n, data) ==
    /\ Len(streams) < MaxStreams
    /\ streams' = Append(streams,
          [node |-> n, pending |-> data, remote |-> "open", buf |-> <<>>,
           hpc |-> "reading", closes |-> 0, note |-> "none"])
    /\ UNCHANGED <<routerVars, resolverVars, didVars, mainVars, outVars, apiVars, keyVars, meshVars, svcVars>>

\* The remote side writes the next k bytes; buf.ReadFrom takes them.
RemoteWrite(s, k) ==
    /\ streams[s].remote = "open"
    /\ streams[s].hpc = "reading"
    /\ k >= 1 /\ k <= Len(streams[s].pending)
    /\ streams' = [streams EXCEPT
          ![s].buf = @ \o SubSeq(streams[s].pending, 1, k),
          ![s].pending = SubSeq(@, k + 1, Len(@))]
    /\ UNCHANGED <<routerVars, resolverVars, didVars, mainVars, outVars, apiVars, keyVars, meshVars, svcVars>>

\* The remote side closes its end (ReadFrom will see EOF) or resets the
\* stream (ReadFrom will return an error).
RemoteEnds(s, how) ==
    /\ streams[s].remote = "open"
    /\ streams[s].hpc = "reading"
    /\ streams' = [streams EXCEPT ![s].remote = how]
    /\ UNCHANGED <<routerVars, resolverVars, didVars, mainVars, outVars, apiVars, keyVars, meshVars, svcVars>>

\* Variant of DirectReadReturns whose early returns leave the stream open
\* (the close is not deferred).
DirectReadReturnsNoDefer(s) ==
    /\ streams[s].hpc = "reading"
    /\ streams[s].remote /= "open"
    /\ LET n == streams[s].node
           d == DirectDecision(did[n], streams[s].buf) IN
       IF streams[s].remote = "reset"
       THEN /\ streams' = [streams EXCEPT ![s].hpc = "done",
                              ![s].note = "read_error"]
            /\ UNCHANGED <<routerVars, resolverVars, didVars, mainVars, outVars, apiVars, keyVars, meshVars, svcVars>>
       ELSE IF d.post
       THEN /\ streams' = [streams EXCEPT ![s].hpc = "posting"]
            /\ sink' = [sink EXCEPT ![n] =
                  Append(@, [via |-> "direct", ref |-> s, body |-> d.body])]
            /\ UNCHANGED <<did, msgs, rd, dpc, dlog, http, resolverVars, didVars, mainVars, outVars, apiVars, keyVars, meshVars, svcVars>>
       ELSE /\ streams' = [streams EXCEPT ![s].hpc = "done",
                              ![s].note = d.note]
            /\ UNCHANGED <<routerVars, resolverVars, didVars, mainVars, outVars, apiVars, keyVars, meshVars, svcVars>>

\* Variant of DirectReadReturns in which the read returns with the first
\* bytes that arrived instead of at the end of the stream.
DirectReadReturnsEarly(s) ==
    /\ streams[s].hpc = "reading"
    /\ streams[s].buf /= <<>>
    /\ LET n == streams[s].node
           d == DirectDecision(did[n], streams[s].buf) IN
       IF streams[s].remote = "reset"
       THEN /\ streams' = [streams EXCEPT ![s].hpc = "done",
                              ![s].closes = @ + 1, ![s].note = "read_error"]
            /\ UNCHANGED <<routerVars, resolverVars, didVars, mainVars, outVars, apiVars, keyVars, meshVars, svcVars>>
       ELSE IF d.post
       THEN /\ streams' = [streams EXCEPT ![s].hpc = "posting"]
            /\ sink' = [sink EXCEPT ![n] =
                  Append(@, [via |-> "direct", ref |-> s, body |-> d.body])]
            /\ UNCHANGED <<did, msgs, rd, dpc, dlog, http, resolverVars, didVars, mainVars, outVars, apiVars, keyVars, meshVars, svcVars>>
       ELSE /\ streams' = [streams EXCEPT ![s].hpc = "done",
                              ![s].closes = @ + 1, ![s].note = d.note]
            /\ UNCHANGED <<routerVars, resolverVars, didVars, mainVars, outVars, apiVars, keyVars, meshVars, svcVars>>

\* buf.ReadFrom returns: on an error the task ends; otherwise the bytes are
\* parsed and the payload is POSTed to the tunnel API.
DirectReadReturns(s) ==
    /\ streams[s].hpc = "reading"
    /\ streams[s].remote /= "open"
    /\ LET n == streams[s].node
           d == DirectDecision(did[n], streams[s].buf) IN
       IF streams[s].remote = "reset"
       THEN /\ streams' = [streams EXCEPT ![s].hpc = "done",
                              ![s].closes = @ + 1, ![s].note = "read_error"]
            /\ UNCHANGED <<routerVars, resolverVars, didVars, mainVars, outVars, apiVars, keyVars, meshVars, svcVars>>
       ELSE IF d.post
       THEN /\ streams' = [streams EXCEPT ![s].hpc = "posting"]
            /\ sink' = [sink EXCEPT ![n] =
                  Append(@, [via |-> "direct", ref |-> s, body |-> d.body])]
            /\ UNCHANGED <<did, msgs, rd, dpc, dlog, http, resolverVars, didVars, mainVars, outVars, apiVars, keyVars, meshVars, svcVars>>
       ELSE /\ streams' = [streams EXCEPT ![s].hpc = "done",
                              ![s].closes = @ + 1, ![s].note = d.note]
            /\ UNCHANGED <<routerVars, resolverVars, didVars, mainVars, outVars, apiVars, keyVars, meshVars, svcVars>>

\* http.Post returns; the task ends and the deferred stream.Close runs.
DirectPostReturns(s, ok) ==
    /\ streams[s].hpc = "posting"
    /\ streams' = [streams EXCEPT ![s].hpc = "done", ![s].closes = @ + 1,
          ![s].note = IF ok THEN "forwarded" ELSE "forward_error"]
    /\ UNCHANGED <<routerVars, resolverVars, didVars, mainVars, outVars, apiVars, keyVars, meshVars, svcVars>>

DirectInit == streams = <<>>

\* The sizes of the pieces a remote peer writes at once.
ChunkSizes(s) ==
    {Len(streams[s].pending), (Len(streams[s].pending) + 1) \div 2}

DirectNext ==
    \/ \E n \in DirectNode, data \in DirectData :
          handleDirectIncomingMessage(n, data)
    \/ \E s \in 1..Len(streams) : \E k \in ChunkSizes(s) : RemoteWrite(s, k)
    \/ \E s \in 1..Len(streams), how \in {"closed", "reset"} :
          RemoteEnds(s, how)
    \/ \E s \in 1..Len(streams) : DirectReadReturns(s)
    \/ \E s \in 1..Len(streams), ok \in BOOLEAN : DirectPostReturns(s, ok)

--------------------------------------------------------------------------
\* Public-key resolver: GetPublicKeyByPeerId and DecodePublicKeyFromPeerId.

\* Remote peers: P1 has an Ed25519 key (its peer ID embeds the key as an
\* identity multihash); R1 and R2 have RSA keys (their peer IDs are sha2-256
\* multihashes of the key).
Peers == {"P1", "R1", "R2"}
Ed25519Peers == {"P1"}
PeerNo(p) == IF p = "P1" THEN 1 ELSE IF p = "R1" THEN 2 ELSE 3

\* pub.Raw(): the raw bytes of a peer's public key.
RawKey(p) ==
    IF p \in Ed25519Peers THEN [i \in 1..32 |-> PeerNo(p)]
    ELSE <<48, 130, 1, 34, PeerNo(p)>>

\* The protobuf-marshalled public key a peer ID is computed from.
MarshalPublicKey(p) ==
    IF p \in Ed25519Peers THEN <<8, 1, 18, 32>> \o RawKey(p)
    ELSE <<8, 0, 18, 5>> \o RawKey(p)

\* peer.IDFromPublicKey: keys of at most 42 marshalled bytes are embedded
\* (identity multihash), longer ones are hashed.
MultihashOf(p) ==
    IF p \in Ed25519Peers
    THEN [code |-> "identity", digest |-> MarshalPublicKey(p)]
    ELSE [code |-> "sha2-256", digest |-> [i \in 1..32 |-> 100 + PeerNo(p)]]
NoMultihash == [code |-> "none", digest |-> <<>>]

\* The strings given as peerId: the base58 text of a peer's multihash, its
\* CIDv1 text, or a text that is neither.
PeerRefs ==
    [enc : {"base58", "cidv1"}, peer : Peers] \cup {[enc |-> "garbage", peer |-> "none"]}
NoRef == [enc |-> "none", peer |-> "none"]

\* cid.Decode succeeds on a CIDv1 text and on the 46-character "Qm..."
\* base58 text of a sha2-256 multihash (a CIDv0).
CidDecodes(ref) ==
    \/ ref.enc = "cidv1"
    \/ ref.enc = "base58" /\ MultihashOf(ref.peer).code = "sha2-256"

\* multihash.Decode of what the text decodes to.
RefMultihash(ref) == IF ref.peer \in Peers THEN MultihashOf(ref.peer) ELSE NoMultihash

\* DecodePublicKeyFromPeerId: the digest of an identity multihash, else an
\* error.
DecodePublicKeyFromPeerId(ref) ==
    IF CidDecodes(ref)
    THEN IF RefMultihash(ref).code = "identity"
         THEN [err |-> "", pk |-> RefMultihash(ref).digest]
         ELSE [err |-> "peerid does not embed public key (not identity multihash)",
               pk |-> <<>>]
    ELSE IF ref.enc /= "base58"
         THEN [err |-> "invalid PeerId format", pk |-> <<>>]
    ELSE IF RefMultihash(ref).code = "identity"
         THEN [err |-> "", pk |-> RefMultihash(ref).digest]
    ELSE [err |-> "peerid does not embed public key", pk |-> <<>>]

\* peer.Decode: the peer a text names, or an error.
PeerDecode(ref) ==
    IF ref.enc \in {"base58", "cidv1"} /\ ref.peer \in Peers
    THEN [err |-> "", pid |-> ref.peer]
    ELSE [err |-> "failed to parse peer ID", pid |-> "none"]

Call(op, ok) == [op |-> op, ok |-> ok]
Returned(calls, key) == [pc |-> "done", calls |-> calls, err |-> "", key |-> key]
Failed(calls, err) == [pc |-> "done", calls |-> calls, err |-> err, key |-> <<>>]
Waiting(pc, calls) == [pc |-> pc, calls |-> calls, err |-> "", key |-> <<>>]

\* Variant of ResolveLocal that does not use the peerstore before the lookup.
ResolveLocalNoCache(ref, store) ==
    LET t1 == DecodePublicKeyFromPeerId(ref)
        c1 == <<Call("DecodePublicKeyFromPeerId", t1.err = "")>>
        pd == PeerDecode(ref)
        c2 == c1 \o <<Call("peer.Decode", pd.err = "")>> IN
    IF t1.err = "" /\ t1.pk /= <<>> THEN Returned(c1, t1.pk)
    ELSE IF pd.err /= "" THEN Failed(c2, pd.err)
    ELSE Waiting("lookup", c2)

\* GetPublicKeyByPeerId up to its first network call: tier 1 (decode), then
\* peer.Decode and tier 2 (peerstore); when both fail it calls dht.FindPeer.
ResolveLocal(ref, store) ==
    LET t1 == DecodePublicKeyFromPeerId(ref)
        c1 == <<Call("DecodePublicKeyFromPeerId", t1.err = "")>>
        pd == PeerDecode(ref)
        c2 == c1 \o <<Call("peer.Decode", pd.err = "")>>
        c3 == c2 \o <<Call("Peerstore.PubKey", pd.pid \in store)>> IN
    IF t1.err = "" /\ t1.pk /= <<>> THEN Returned(c1, t1.pk)
    ELSE IF pd.err /= "" THEN Failed(c2, pd.err)
    ELSE IF pd.pid \in store THEN Returned(c3, RawKey(pd.pid))
    ELSE Waiting("lookup", c3)

\* Variant of AfterFindPeer that connects whatever the lookup returned.
AfterFindPeerAlwaysConnect(calls, found) ==
    Waiting("connect", calls \o <<Call("dht.FindPeer", found)>>)

\* dht.FindPeer returned: an error ends the call, an address is connected to.
AfterFindPeer(calls, found) ==
    LET c == calls \o <<Call("dht.FindPeer", found)>> IN
    IF ~found THEN Failed(c, "routing: not found")
    ELSE Waiting("connect", c)

\* Variant of AfterConnect that queries the peerstore after a failed connect.
AfterConnectAlwaysRequery(calls, ok, pid, store) ==
    LET c == calls \o <<Call("Connect", ok),
                        Call("Peerstore.PubKey", pid \in store)>> IN
    IF pid \in store THEN Returned(c, RawKey(pid))
    ELSE Failed(c, "no public key found")

\* node.Connect returned: an error ends the call; otherwise the peerstore is
\* queried again.
AfterConnect(calls, ok, pid, store) ==
    LET c == calls \o <<Call("Connect", ok)>>
        c2 == c \o <<Call("Peerstore.PubKey", pid \in store)>> IN
    IF ~ok THEN Failed(c, "failed to dial")
    ELSE IF pid \in store THEN Returned(c2, RawKey(pid))
    ELSE Failed(c2, "no public key found")

\* Variant of GetPublicKeyByPeerId that stores the peer it resolved in the
\* peerstore itself.
GetPublicKeyByPeerIdCaching(ref) ==
    /\ req.pc \in {"idle", "done"}
    /\ nreq < MaxResolves
    /\ nreq' = nreq + 1
    /\ req' = [ref |-> ref] @@ ResolveLocal(ref, peerstore)
    /\ peerstore' = IF req'.pc = "done" /\ req'.err = ""
                    THEN peerstore \cup {ref.peer} ELSE peerstore
    /\ UNCHANGED <<conns, routerVars, directVars, didVars, mainVars, outVars, apiVars, keyVars, meshVars, svcVars>>

\* A call of GetPublicKeyByPeerId(ctx, ref) runs up to its return or its
\* first network call.
GetPublicKeyByPeerId(ref) ==
    /\ req.pc \in {"idle", "done"}
    /\ nreq < MaxResolves
    /\ nreq' = nreq + 1
    /\ req' = [ref |-> ref] @@ ResolveLocal(ref, peerstore)
    /\ UNCHANGED <<peerstore, conns, routerVars, directVars, didVars, mainVars, outVars, apiVars, keyVars, meshVars, svcVars>>

\* s.dht.FindPeer returns.
FindPeerReturns(found) ==
    /\ req.pc = "lookup"
    /\ req' = [ref |-> req.ref] @@ AfterFindPeer(req.calls, found)
    /\ UNCHANGED <<peerstore, conns, nreq, routerVars, directVars, didVars, mainVars, outVars, apiVars, keyVars, meshVars, svcVars>>

\* s.node.Connect returns. A successful connect adds the connection; the
\* handshake may store the remote key in the peerstore (learns).
ConnectReturns(ok, learns) ==
    /\ req.pc = "connect"
    /\ ok \/ ~learns
    /\ LET pid == PeerDecode(req.ref).pid
           store == IF learns THEN peerstore \cup {pid} ELSE peerstore IN
       /\ peerstore' = store
       /\ conns' = IF ok THEN conns \cup {pid} ELSE conns
       /\ req' = [ref |-> req.ref] @@ AfterConnect(req.calls, ok, pid, store)
    /\ UNCHANGED <<nreq, routerVars, directVars, didVars, mainVars, outVars, apiVars, keyVars, meshVars, svcVars>>

\* The substrate learns a peer's key on its own (another connection).
PeerstoreLearns(p) ==
    /\ p \notin peerstore
    /\ peerstore' = peerstore \cup {p}
    /\ UNCHANGED <<conns, req, nreq, routerVars, directVars, didVars, mainVars, outVars, apiVars, keyVars, meshVars, svcVars>>

ResolverInit ==
    /\ peerstore = {}
    /\ conns = {}
    /\ req = [ref |-> NoRef] @@ Waiting("idle", <<>>)
    /\ nreq = 0

ResolverNext ==
    \/ \E ref \in PeerRefs : GetPublicKeyByPeerId(ref)
    \/ \E found \in BOOLEAN : FindPeerReturns(found)
    \/ \E ok, learns \in BOOLEAN : ConnectReturns(ok, learns)
    \/ \E p \in Peers : PeerstoreLearns(p)

--------------------------------------------------------------------------
\* DID codec: ToSightDID and DIDToPublicKey over base58.

\* The base58 (bitcoin) alphabet of github.com/mr-tron/base58.
Alphabet ==
    <<"1", "2", "3", "4", "5", "6", "7", "8", "9", "A", "B", "C", "D", "E",
      "F", "G", "H", "J", "K", "L", "M", "N", "P", "Q", "R", "S", "T", "U",
      "V", "W", "X", "Y", "Z", "a", "b", "c", "d", "e", "f", "g", "h", "i",
      "j", "k", "m", "n", "o", "p", "q", "r", "s", "t", "u", "v", "w", "x",
      "y", "z">>

\* The value of a base58 digit, or -1 for a character outside the alphabet.
DigitOf(ch) ==
    IF \E i \in 1..Len(Alphabet) : Alphabet[i] = ch
    THEN (CHOOSE i \in 1..Len(Alphabet) : Alphabet[i] = ch) - 1
    ELSE -1

RECURSIVE LeadingCount(_, _)
LeadingCount(seq, x) ==
    IF seq = <<>> \/ Head(seq) /= x THEN 0
    ELSE 1 + LeadingCount(Tail(seq), x)

Repeat(x, n) == [i \in 1..n |-> x]

\* Long division of a big-endian number in base `from` by `to`: the
\* quotient (without leading zeros) and the remainder.
RECURSIVE DivMod(_, _, _, _, _)
DivMod(digits, from, to, carry, quot) ==
    IF digits = <<>> THEN [q |-> quot, r |-> carry]
    ELSE LET cur == carry * from + Head(digits)
             d == cur \div to IN
         DivMod(Tail(digits), from, to, cur % to,
                IF quot = <<>> /\ d = 0 THEN <<>> ELSE Append(quot, d))

\* The digits in base `to` of a big-endian number given in base `from`.
RECURSIVE Convert(_, _, _, _)
Convert(digits, from, to, acc) ==
    IF digits = <<>> THEN acc
    ELSE LET dm == DivMod(digits, from, to, 0, <<>>) IN
         Convert(dm.q, from, to, <<dm.r>> \o acc)

Strip(seq, x) == SubSeq(seq, LeadingCount(seq, x) + 1, Len(seq))

\* base58.Encode: one "1" per leading zero byte, then the number in base 58.
Base58Encode(bytes) ==
    LET ds == Convert(Strip(bytes, 0), 256, 58, <<>>) IN
    Repeat("1", LeadingCount(bytes, 0)) \o [i \in 1..Len(ds) |-> Alphabet[ds[i] + 1]]

\* base58.Decode: an error for the empty text and for a character outside
\* the alphabet; else one zero byte per leading "1", then the number in
\* base 256.
Base58Decode(str) ==
    IF str = <<>> THEN [err |-> "zero length string", bytes |-> <<>>]
    ELSE IF \E i \in 1..Len(str) : DigitOf(str[i]) = -1
    THEN [err |-> "invalid base58 digit", bytes |-> <<>>]
    ELSE LET ds == [i \in 1..Len(str) |-> DigitOf(str[i])] IN
         [err |-> "",
          bytes |-> Repeat(0, LeadingCount(str, "1"))
                       \o Convert(Strip(ds, 0), 58, 256, <<>>)]

\* The scheme literal "did:sight:hoster:".
DIDPrefix ==
    <<"d", "i", "d", ":", "s", "i", "g", "h", "t", ":", "h", "o", "s", "t",
      "e", "r", ":">>
\* The multicodec bytes 0xed 0x01 and the length of prefix plus key.
MulticodecEd == 237
MulticodecOne == 1
DecodedLen == 34

HasPrefix(str, pre) ==
    Len(str) >= Len(pre) /\ SubSeq(str, 1, Len(pre)) = pre

\* ToSightDID: the scheme literal, then base58 of 0xed 0x01 and the key.
ToSightDID(publicKey) ==
    DIDPrefix \o Base58Encode(<<MulticodecEd, MulticodecOne>> \o publicKey)

\* Variant of DIDToPublicKey that does not check the decoded length.
DIDToPublicKeyNoLength(str) ==
    IF ~HasPrefix(str, DIDPrefix)
    THEN [err |-> "not a valid sight DID", key |-> <<>>]
    ELSE LET d == Base58Decode(SubSeq(str, Len(DIDPrefix) + 1, Len(str))) IN
         IF d.err /= "" THEN [err |-> d.err, key |-> <<>>]
         ELSE IF Len(d.bytes) < 2 \/ d.bytes[1] /= MulticodecEd
                 \/ d.bytes[2] /= MulticodecOne
         THEN [err |-> "not a valid ed25519 encoded key", key |-> <<>>]
         ELSE [err |-> "", key |-> SubSeq(d.bytes, 3, Len(d.bytes))]

\* Variant of DIDToPublicKey that returns the bytes after the first one.
DIDToPublicKeyOffByOne(str) ==
    IF ~HasPrefix(str, DIDPrefix)
    THEN [err |-> "not a valid sight DID", key |-> <<>>]
    ELSE LET d == Base58Decode(SubSeq(str, Len(DIDPrefix) + 1, Len(str))) IN
         IF d.err /= "" THEN [err |-> d.err, key |-> <<>>]
         ELSE IF Len(d.bytes) /= DecodedLen \/ d.bytes[1] /= MulticodecEd
                 \/ d.bytes[2] /= MulticodecOne
         THEN [err |-> "not a valid ed25519 encoded key", key |-> <<>>]
         ELSE [err |-> "", key |-> SubSeq(d.bytes, 2, Len(d.bytes))]

\* DIDToPublicKey: the key bytes of a DID text, or an error.
DIDToPublicKey(str) ==
    IF ~HasPrefix(str, DIDPrefix)
    THEN [err |-> "not a valid sight DID", key |-> <<>>]
    ELSE LET d == Base58Decode(SubSeq(str, Len(DIDPrefix) + 1, Len(str))) IN
         IF d.err /= "" THEN [err |-> d.err, key |-> <<>>]
         ELSE IF Len(d.bytes) /= DecodedLen \/ d.bytes[1] /= MulticodecEd
                 \/ d.bytes[2] /= MulticodecOne
         THEN [err |-> "not a valid ed25519 encoded key", key |-> <<>>]
         ELSE [err |-> "", key |-> SubSeq(d.bytes, 3, Len(d.bytes))]

\* The keys given to the codec: a first byte and a fill byte, at lengths
\* around the 32 bytes of an Ed25519 public key, and the empty key.
ByteSamples == {0, 1, 255}
KeyLens ==
    {0} \cup ((DecodedLen - 2 - MaxLenDelta)..(DecodedLen - 2 + MaxLenDelta))
KeySamples ==
    {[i \in 1..n |-> IF i = 1 THEN a ELSE b] :
        n \in KeyLens, a \in ByteSamples, b \in ByteSamples}

\* Scheme literals of forged DID texts: the right one, one with a changed
\* character, one cut short, and none.
Schemes ==
    {DIDPrefix,
     [DIDPrefix EXCEPT ![5] = "l"],
     SubSeq(DIDPrefix, 1, Len(DIDPrefix) - 1),
     <<>>}

\* ToSightDID is applied to the key.
EncodeDID ==
    /\ dstep = "start"
    /\ dpayload' = <<MulticodecEd, MulticodecOne>> \o dkey
    /\ dstr' = ToSightDID(dkey)
    /\ dsrc' = "ToSightDID"
    /\ dstep' = "text"
    /\ UNCHANGED <<dkey, dout, routerVars, directVars, resolverVars, mainVars, outVars, apiVars, keyVars, meshVars, svcVars>>

\* A DID text made by someone else: any scheme literal and any two leading
\* bytes before the key, or no bytes at all.
ForgeDID(scheme, b0, b1, empty) ==
    /\ dstep = "start"
    /\ dpayload' = IF empty THEN <<>> ELSE <<b0, b1>> \o dkey
    /\ dstr' = scheme \o Base58Encode(dpayload')
    /\ dsrc' = "forged"
    /\ dstep' = "text"
    /\ UNCHANGED <<dkey, dout, routerVars, directVars, resolverVars, mainVars, outVars, apiVars, keyVars, meshVars, svcVars>>

\* A character of the text is replaced by one outside the base58 alphabet.
CorruptDID(ch) ==
    /\ dstep = "text"
    /\ dsrc = "ToSightDID"
    /\ dstr' = [dstr EXCEPT ![Len(dstr)] = ch]
    /\ dsrc' = "corrupted"
    /\ UNCHANGED <<dkey, dpayload, dout, dstep, routerVars, directVars,
                   resolverVars, mainVars, outVars, apiVars, keyVars, meshVars, svcVars>>

\* DIDToPublicKey is applied to the text.
DecodeDID ==
    /\ dstep = "text"
    /\ dout' = DIDToPublicKey(dstr)
    /\ dstep' = "decoded"
    /\ UNCHANGED <<dkey, dpayload, dstr, dsrc, routerVars, directVars,
                   resolverVars, mainVars, outVars, apiVars, keyVars, meshVars, svcVars>>

DIDIdle ==
    /\ dkey = <<>>
    /\ dpayload = <<>>
    /\ dstr = <<>>
    /\ dsrc = "none"
    /\ dout = [err |-> "", key |-> <<>>]
    /\ dstep = "idle"

DIDInit ==
    /\ dkey \in KeySamples
    /\ dpayload = <<>>
    /\ dstr = <<>>
    /\ dsrc = "none"
    /\ dout = [err |-> "", key |-> <<>>]
    /\ dstep = "start"

DIDNext ==
    \/ EncodeDID
    \/ \E scheme \in Schemes, b0 \in {MulticodecEd, 236, 0}, b1 \in {MulticodecOne, 0},
          empty \in BOOLEAN : ForgeDID(scheme, b0, b1, empty)
    \/ \E ch \in {"0", "l", "O", "I"} : CorruptDID(ch)
    \/ DecodeDID

--------------------------------------------------------------------------
\* Outbound calls: ConnectByDIDOrMultiAddr, PingPeer and SendDirectMessage.

\* Multiaddr texts are sequences of "/" and the words between them.
Protocols == {"ip4", "tcp", "p2p"}

\* ma.NewMultiaddr: "/" protocol "/" value, repeated; a p2p value must be a
\* peer ID.
RECURSIVE ParseComponents(_)
ParseComponents(str) ==
    IF str = <<>> THEN [err |-> "", comps |-> <<>>]
    ELSE IF Len(str) < 2 \/ str[1] /= "/"
    THEN [err |-> "must begin with /", comps |-> <<>>]
    ELSE IF str[2] \notin Protocols
    THEN [err |-> "unknown protocol", comps |-> <<>>]
    ELSE IF Len(str) < 4 \/ str[3] /= "/"
    THEN [err |-> "unexpected end of multiaddr", comps |-> <<>>]
    ELSE IF str[2] = "p2p" /\ str[4] \notin Peers
    THEN [err |-> "failed to parse p2p addr", comps |-> <<>>]
    ELSE LET rest == ParseComponents(SubSeq(str, 5, Len(str))) IN
         IF rest.err /= "" THEN rest
         ELSE [err |-> "",
               comps |-> <<[proto |-> str[2], value |-> str[4]]>>
                             \o rest.comps]

NewMultiaddr(str) ==
    IF str = <<>> THEN [err |-> "empty multiaddr", comps |-> <<>>]
    ELSE ParseComponents(str)

\* peer.AddrInfoFromP2pAddr: the last component must be the p2p one.
AddrInfoFromP2pAddr(comps) ==
    IF comps = <<>> \/ comps[Len(comps)].proto /= "p2p"
    THEN [err |-> "invalid p2p multiaddr", pid |-> NoMultihash]
    ELSE [err |-> "", pid |-> MultihashOf(comps[Len(comps)].value)]

\* PublicKeyToPeerId: an Ed25519 key has 32 bytes; its peer ID embeds the
\* marshalled key.
PublicKeyToPeerId(pub) ==
    IF Len(pub) /= 32
    THEN [err |-> "expect ed25519 public key data size to be 32",
          pid |-> NoMultihash]
    ELSE [err |-> "",
          pid |-> [code |-> "identity", digest |-> <<8, 1, 18, 32>> \o pub]]

\* The references given to the outbound calls.
MaddrP1 == <<"/", "ip4", "/", "10.0.0.1", "/", "tcp", "/", "4001",
             "/", "p2p", "/", "P1">>
MaddrR1 == <<"/", "p2p", "/", "R1">>
MaddrNoPeer == <<"/", "ip4", "/", "10.0.0.1", "/", "tcp", "/", "4001">>
MaddrBad == <<"/", "bogus", "/", "1">>
DidP1 == ToSightDID(RawKey("P1"))
DidUnknown == ToSightDID([i \in 1..32 |-> 7])
DidCorrupt == [DidP1 EXCEPT ![Len(DidP1)] = "0"]
DidShort == ToSightDID(<<1, 2, 3>>)
DidNoScheme == Base58Encode(<<MulticodecEd, MulticodecOne>> \o RawKey("P1"))
OutRefs == {MaddrP1, MaddrR1, MaddrNoPeer, MaddrBad, DidP1, DidUnknown,
            DidCorrupt, DidShort, DidNoScheme, <<>>}
OutPayloads == {ExtBare, ExtToOther}
DirectProtocol == "/test/0.0.1"

\* The peer a reference names, as PingPeer and SendDirectMessage compute it
\* after the connect step.
TargetOf(ref) ==
    IF HasPrefix(ref, <<"/">>)
    THEN AddrInfoFromP2pAddr(NewMultiaddr(ref).comps).pid
    ELSE PublicKeyToPeerId(DIDToPublicKey(ref).key).pid

OutDone(calls, err) ==
    [pc |-> "done", calls |-> calls, err |-> err, rtt |-> 0,
     answered |-> FALSE]
OutWaiting(pc, calls) ==
    [pc |-> pc, calls |-> calls, err |-> "", rtt |-> 0, answered |-> FALSE]

\* Variant of ConnectStart that looks every reference up, raw addresses too.
ConnectStartAlwaysLookup(ref) ==
    IF HasPrefix(ref, <<"/">>)
    THEN LET m == NewMultiaddr(ref) IN
         IF m.err /= "" THEN OutDone(<<>>, m.err)
         ELSE LET info == AddrInfoFromP2pAddr(m.comps) IN
              IF info.err /= "" THEN OutDone(<<>>, info.err)
              ELSE OutWaiting("findpeer", <<>>)
    ELSE LET d == DIDToPublicKey(ref) IN
         LET id == PublicKeyToPeerId(d.key) IN
         IF d.err = "" /\ id.err /= "" THEN OutDone(<<>>, id.err)
         ELSE OutWaiting("findpeer", <<>>)

\* ConnectByDIDOrMultiAddr up to its first network call: a reference that
\* starts with "/" is parsed as an address and connected to; any other is
\* decoded as a DID and looked up.
ConnectStart(ref) ==
    IF HasPrefix(ref, <<"/">>)
    THEN LET m == NewMultiaddr(ref) IN
         IF m.err /= "" THEN OutDone(<<>>, m.err)
         ELSE LET info == AddrInfoFromP2pAddr(m.comps) IN
              IF info.err /= "" THEN OutDone(<<>>, info.err)
              ELSE OutWaiting("connect", <<>>)
    ELSE LET d == DIDToPublicKey(ref) IN
         IF d.err /= "" THEN OutDone(<<>>, d.err)
         ELSE LET id == PublicKeyToPeerId(d.key) IN
              IF id.err /= "" THEN OutDone(<<>>, id.err)
              ELSE OutWaiting("findpeer", <<>>)

\* Where a call goes after a successful connect step.
AfterOutConnect(op) ==
    IF op = "connect" THEN "done"
    ELSE IF op = "ping" THEN "pingstream" ELSE "newstream"

nonOutVars == <<routerVars, directVars, resolverVars, didVars, mainVars, apiVars, keyVars, meshVars, svcVars>>

\* A call starts with ConnectByDIDOrMultiAddr.
StartCall(op, ref, payload) ==
    /\ oc.pc \in {"idle", "done"}
    /\ nout < MaxCalls
    /\ nout' = nout + 1
    /\ oc' = [op |-> op, ref |-> ref, payload |-> payload, stream |-> 0]
                @@ ConnectStart(ref)
    /\ octx' = IF op = "connect" THEN "none" ELSE "live"
    /\ UNCHANGED <<oconn, ostreams, nonOutVars>>

\* ConnectHandler calls ConnectByDIDOrMultiAddr with the request's context.
ConnectByDIDOrMultiAddr(ref) == StartCall("connect", ref, <<>>)

\* PingHandler calls PingPeer under a 5 s deadline.
PingPeer(ref) == StartCall("ping", ref, <<>>)

\* SendDirectHandler calls SendDirectMessage under a 5 s deadline.
SendDirectMessage(ref, payload) == StartCall("send", ref, payload)

\* The deadline of the call's context passes.
DeadlineExpires ==
    /\ octx = "live"
    /\ oc.pc \notin {"idle", "done"}
    /\ octx' = "expired"
    /\ UNCHANGED <<oc, nout, oconn, ostreams, nonOutVars>>

\* s.dht.FindPeer returns; it fails once the context has expired.
OutFindPeerReturns(found) ==
    /\ oc.pc = "findpeer"
    /\ found => octx /= "expired"
    /\ oc' = [oc EXCEPT !.calls = Append(@, Call("FindPeer", found)),
                        !.pc = IF found THEN "connect" ELSE "done",
                        !.err = IF found THEN "" ELSE "routing: not found"]
    /\ UNCHANGED <<nout, octx, oconn, ostreams, nonOutVars>>

\* s.node.Connect returns; the caller goes on to its own steps.
OutConnectReturns(ok) ==
    /\ oc.pc = "connect"
    /\ ok => octx /= "expired"
    /\ oc' = [oc EXCEPT !.calls = Append(@, Call("Connect", ok)),
                        !.pc = IF ok THEN AfterOutConnect(oc.op) ELSE "done",
                        !.err = IF ok THEN "" ELSE "failed to dial"]
    /\ oconn' = IF ok THEN oconn \cup {TargetOf(oc.ref)} ELSE oconn
    /\ UNCHANGED <<nout, octx, ostreams, nonOutVars>>

\* s.node.NewStream returns in SendDirectMessage.
NewStreamReturns(ok) ==
    /\ oc.pc = "newstream"
    /\ ok => octx /= "expired"
    /\ ostreams' = IF ok
                   THEN Append(ostreams,
                          [pid |-> TargetOf(oc.ref), proto |-> DirectProtocol,
                           written |-> <<>>, closes |-> 0, call |-> nout])
                   ELSE ostreams
    /\ oc' = [oc EXCEPT !.calls = Append(@, Call("NewStream", ok)),
                        !.pc = IF ok THEN "write" ELSE "done",
                        !.stream = IF ok THEN Len(ostreams') ELSE 0,
                        !.err = IF ok THEN "" ELSE "failed to open stream"]
    /\ UNCHANGED <<nout, octx, oconn, nonOutVars>>

\* Variant of WriteReturns that closes the stream only after a good write.
WriteReturnsNoDefer(ok) ==
    /\ oc.pc = "write"
    /\ ostreams' = [ostreams EXCEPT
          ![oc.stream].written = IF ok THEN Append(@, oc.payload) ELSE @,
          ![oc.stream].closes = IF ok THEN @ + 1 ELSE @]
    /\ oc' = [oc EXCEPT
          !.calls = IF ok THEN @ \o <<Call("Write", ok), Call("Close", TRUE)>>
                    ELSE Append(@, Call("Write", ok)),
          !.pc = "done",
          !.err = IF ok THEN "" ELSE "stream reset"]
    /\ UNCHANGED <<nout, octx, oconn, nonOutVars>>

\* stream.Write returns, the deferred stream.Close runs and
\* SendDirectMessage returns the error of the write.
WriteReturns(ok) ==
    /\ oc.pc = "write"
    /\ ostreams' = [ostreams EXCEPT
          ![oc.stream].written = IF ok THEN Append(@, oc.payload) ELSE @,
          ![oc.stream].closes = @ + 1]
    /\ oc' = [oc EXCEPT
          !.calls = @ \o <<Call("Write", ok), Call("Close", TRUE)>>,
          !.pc = "done",
          !.err = IF ok THEN "" ELSE "stream reset"]
    /\ UNCHANGED <<nout, octx, oconn, nonOutVars>>

\* pinger.Ping opens the ping stream; when that fails the result channel
\* holds the error.
PingStreamReturns(ok) ==
    /\ oc.pc = "pingstream"
    /\ ok => octx /= "expired"
    /\ oc' = [oc EXCEPT !.calls = Append(@, Call("Ping", ok)),
                        !.pc = IF ok THEN "pingwait" ELSE "done",
                        !.err = IF ok THEN "" ELSE "failed to open stream"]
    /\ UNCHANGED <<nout, octx, oconn, ostreams, nonOutVars>>

\* res := <-ch returns. Before the deadline the ping task sends the round
\* trip time of the peer's answer or the error of the stream; once the
\* context is done it sends nothing and closes the channel, and the receive
\* yields the zero Result (RTT 0, Error nil).
PingResult(kind, ms) ==
    /\ oc.pc = "pingwait"
    /\ kind \in {"rtt", "error"} => octx = "live"
    /\ kind = "closed" => octx = "expired" /\ ms = 0
    /\ kind = "error" => ms = 0
    /\ oc' = [oc EXCEPT !.pc = "done",
                        !.err = IF kind = "error" THEN "stream reset" ELSE "",
                        !.rtt = ms,
                        !.answered = (kind = "rtt")]
    /\ UNCHANGED <<nout, octx, oconn, ostreams, nonOutVars>>

\* PingHandler's status for a finished PingPeer call.
PingStatus == IF oc.err /= "" THEN 500 ELSE 200

OutInit ==
    /\ oc = [op |-> "none", ref |-> <<>>, payload |-> <<>>, stream |-> 0]
               @@ OutWaiting("idle", <<>>)
    /\ nout = 0
    /\ octx = "none"
    /\ oconn = {}
    /\ ostreams = <<>>

OutNext ==
    \/ \E ref \in OutRefs : ConnectByDIDOrMultiAddr(ref)
    \/ \E ref \in OutRefs : PingPeer(ref)
    \/ \E ref \in OutRefs, payload \in OutPayloads :
          SendDirectMessage(ref, payload)
    \/ DeadlineExpires
    \/ \E found \in BOOLEAN : OutFindPeerReturns(found)
    \/ \E ok \in BOOLEAN : OutConnectReturns(ok)
    \/ \E ok \in BOOLEAN : NewStreamReturns(ok)
    \/ \E ok \in BOOLEAN : WriteReturns(ok)
    \/ \E ok \in BOOLEAN : PingStreamReturns(ok)
    \/ \E kind \in {"rtt", "error", "closed"}, ms \in {0, 3} :
          PingResult(kind, ms)

--------------------------------------------------------------------------
\* The HTTP surface: the routes main registers on the mux router and the
\* handlers of the controller.

SendPath == "/libp2p/send"
PublicKeyPath == "/libp2p/public-key/{peerId}"
FindPeerPath == "/libp2p/find-peer/{peerId}"
Paths == {SendPath, PublicKeyPath, FindPeerPath}
Methods == {"GET", "POST"}

\* router.HandleFunc calls of main.
Routes ==
    {[path |-> SendPath, method |-> "POST", handler |-> "SendHandler"]}

\* mux.Router: the handler of the route that matches path and method; 405
\* when only the method differs, 404 when no route matches the path.
Dispatch(method, path) ==
    IF \E r \in Routes : r.path = path /\ r.method = method
    THEN [handler |-> (CHOOSE r \in Routes :
                          r.path = path /\ r.method = method).handler,
          status |-> 0]
    ELSE IF \E r \in Routes : r.path = path
    THEN [handler |-> "none", status |-> 405]
    ELSE [handler |-> "none", status |-> 404]

\* GetPublicKeyHandler's answer to the resolver's result.
GetPublicKeyHandler(res) ==
    IF res.err /= "" THEN [status |-> 404, body |-> <<>>]
    ELSE [status |-> 200, body |-> Base58Encode(res.key)]

\* The resolver's result for a reference when no network call is needed,
\* else the failure of the lookup.
ResolveNow(ref) ==
    LET r == ResolveLocal(ref, peerstore) IN
    IF r.pc = "done" THEN r ELSE Failed(r.calls, "routing: not found")

\* The server takes a request; the router dispatches it.
ServeHTTP(method, path, ref, body) ==
    /\ Len(hreq) < MaxDispatch
    /\ LET d == Dispatch(method, path)
           a == IF d.handler = "SendHandler"
                THEN [status |-> SendResult(body, TRUE).status, body |-> <<>>]
                ELSE IF d.handler = "GetPublicKeyHandler"
                THEN GetPublicKeyHandler(ResolveNow(ref))
                ELSE [status |-> d.status, body |-> <<>>] IN
       hreq' = Append(hreq, [method |-> method, path |-> path, ref |-> ref,
                             handler |-> d.handler, status |-> a.status,
                             body |-> a.body,
                             resolved |-> ResolveNow(ref)])
    /\ UNCHANGED <<routerVars, directVars, resolverVars, didVars, mainVars,
                   outVars, keyVars, meshVars, svcVars>>

ApiInit == hreq = <<>>

ApiNext ==
    \/ \E method \in Methods, path \in Paths, ref \in PeerRefs,
          body \in {BodyToY, BodyTruncated} :
          ServeHTTP(method, path, ref, body)
    \/ \E p \in Peers : PeerstoreLearns(p)

--------------------------------------------------------------------------
\* Direct send over HTTP: SendDirectHandler, and the stream it opens as the
\* receiving node sees it.

\* Bodies of send and send-direct requests: an object with a payload
\* member, one without, and one that is cut off.
FramingBodies == {ExtToY, BodyToY, BodyTruncated}
FramingRefs == {DidP1}

\* Variant of SendDirectHandler that wraps the body in an envelope as
\* SendHandler does.
SendDirectHandlerWrapping(ref, body) ==
    /\ oc.pc \in {"idle", "done"}
    /\ nout < MaxCalls
    /\ Len(hreq) < MaxDispatch
    /\ LET d == DecoderDecode(body) IN
       IF d.err
       THEN /\ hreq' = Append(hreq, [handler |-> "SendDirectHandler", ref |-> ref,
                                     body |-> body, status |-> 400,
                                     call |-> 0])
            /\ UNCHANGED outVars
       ELSE /\ nout' = nout + 1
            /\ oc' = [op |-> "send", ref |-> ref,
                      payload |-> Marshal(Envelope(d.v)), stream |-> 0]
                        @@ ConnectStart(ref)
            /\ octx' = "live"
            /\ hreq' = Append(hreq, [handler |-> "SendDirectHandler", ref |-> ref,
                                     body |-> body, status |-> 0,
                                     call |-> nout + 1])
            /\ UNCHANGED <<oconn, ostreams>>
    /\ UNCHANGED <<routerVars, directVars, resolverVars, didVars, mainVars, keyVars, meshVars, svcVars>>

\* SendDirectHandler: a body that does not decode is answered 400; otherwise
\* the decoded body is marshalled and given to SendDirectMessage under a 5 s
\* deadline.
SendDirectHandler(ref, body) ==
    /\ oc.pc \in {"idle", "done"}
    /\ nout < MaxCalls
    /\ Len(hreq) < MaxDispatch
    /\ LET d == DecoderDecode(body) IN
       IF d.err
       THEN /\ hreq' = Append(hreq, [handler |-> "SendDirectHandler", ref |-> ref,
                                     body |-> body, status |-> 400,
                                     call |-> 0])
            /\ UNCHANGED outVars
       ELSE /\ nout' = nout + 1
            /\ oc' = [op |-> "send", ref |-> ref,
                      payload |-> Marshal(d.v), stream |-> 0]
                        @@ ConnectStart(ref)
            /\ octx' = "live"
            /\ hreq' = Append(hreq, [handler |-> "SendDirectHandler", ref |-> ref,
                                     body |-> body, status |-> 0,
                                     call |-> nout + 1])
            /\ UNCHANGED <<oconn, ostreams>>
    /\ UNCHANGED <<routerVars, directVars, resolverVars, didVars, mainVars, keyVars, meshVars, svcVars>>

\* What the sender wrote on its k-th stream before it closed it.
WrittenOn(k) ==
    IF ostreams[k].written = <<>> THEN <<>> ELSE ostreams[k].written[1]

\* The host of the receiving node hands the k-th stream of the sender to the
\* handler set for the protocol; the sender has written and closed it.
StreamArrives(k) ==
    /\ k = Len(streams) + 1
    /\ k <= Len(ostreams)
    /\ ostreams[k].proto = DirectProtocol
    /\ ostreams[k].closes = 1
    /\ \E n \in DirectNode : handleDirectIncomingMessage(n, WrittenOn(k))

FramingNext ==
    \/ \E ref \in FramingRefs, body \in FramingBodies :
          SendDirectHandler(ref, body)
    \/ \E found \in BOOLEAN : OutFindPeerReturns(found)
    \/ \E ok \in BOOLEAN : OutConnectReturns(ok)
    \/ \E ok \in BOOLEAN : NewStreamReturns(ok)
    \/ \E ok \in BOOLEAN : WriteReturns(ok)
    \/ \E k \in 1..Len(ostreams) : StreamArrives(k)
    \/ \E s \in 1..Len(streams) : RemoteWrite(s, Len(streams[s].pending))
    \/ \E s \in 1..Len(streams) : RemoteEnds(s, "closed")
    \/ \E s \in 1..Len(streams) : DirectReadReturns(s)
    \/ \E s \in 1..Len(streams) : DirectPostReturns(s, TRUE)
    \/ \E n \in HttpNode, body \in FramingBodies : SendHandler(n, body, TRUE)
    \/ \E n \in DirectNode : handleIncomingMessages(n)
    \/ \E n \in DirectNode : PostReturns(n, TRUE)

--------------------------------------------------------------------------
\* The keypair store: LoadOrGenerateKeypair and the key file.

\* ed25519.SeedSize
SeedSize == 32

\* The tokens of the key file's JSON text.
KPunct(c) == [t |-> "punct", s |-> c, n |-> 0]
KKey(name) == [t |-> "key", s |-> name, n |-> 0]
KStr(x) == [t |-> "str", s |-> x, n |-> 0]
KNum(v) == [t |-> "num", s |-> "", n |-> v]
KFrac(x) == [t |-> "frac", s |-> x, n |-> 0]
KNull == [t |-> "null", s |-> "", n |-> 0]

\* json.MarshalIndent of jsonKeypair: seed as an array of decimal numbers,
\* then the two timestamps.
MarshalKeyFile(seedInt, createdAt, lastUsed) ==
    <<KPunct("{"), KKey("seed"), KPunct("[")>>
        \o [i \in 1..Len(seedInt) |-> KNum(seedInt[i])]
        \o <<KPunct("]"), KKey("createdAt"), KStr(createdAt),
             KKey("lastUsed"), KStr(lastUsed), KPunct("}")>>

NoFields == [err |-> "", seed |-> <<>>, createdAt |-> "", lastUsed |-> ""]

\* The position of the first "]" after position i, or 0.
CloseOf(toks, i) ==
    LET c == {j \in (i + 1)..Len(toks) : toks[j] = KPunct("]")} IN
    IF c = {} THEN 0 ELSE CHOOSE j \in c : \A k \in c : j <= k

\* json.Unmarshal into the struct {Seed []int; CreatedAt, LastUsed string}:
\* the members of the object, one after the other.
RECURSIVE KeyMembers(_, _)
KeyMembers(toks, acc) ==
    IF toks = <<>> THEN acc
    ELSE IF Len(toks) < 2 \/ toks[1].t /= "key"
    THEN [acc EXCEPT !.err = "invalid character"]
    ELSE LET name == toks[1].s IN
         IF toks[2] = KPunct("[")
         THEN LET close == CloseOf(toks, 2) IN
              IF close = 0 THEN [acc EXCEPT !.err = "unexpected end of JSON"]
              ELSE LET items == SubSeq(toks, 3, close - 1)
                       rest == SubSeq(toks, close + 1, Len(toks)) IN
                   IF \E i \in 1..Len(items) :
                         items[i].t \notin {"num", "frac", "str"}
                   THEN [acc EXCEPT !.err = "invalid character"]
                   ELSE IF name = "seed"
                   THEN IF \E i \in 1..Len(items) : items[i].t /= "num"
                        THEN [acc EXCEPT !.err = "cannot unmarshal into int"]
                        ELSE KeyMembers(rest,
                               [acc EXCEPT !.seed =
                                  [i \in 1..Len(items) |-> items[i].n]])
                   ELSE IF name \in {"createdAt", "lastUsed"}
                   THEN [acc EXCEPT !.err = "cannot unmarshal array"]
                   ELSE KeyMembers(rest, acc)
         ELSE IF toks[2].t = "str"
         THEN LET rest == SubSeq(toks, 3, Len(toks)) IN
              IF name = "seed"
              THEN [acc EXCEPT !.err = "cannot unmarshal string"]
              ELSE IF name = "createdAt"
              THEN KeyMembers(rest, [acc EXCEPT !.createdAt = toks[2].s])
              ELSE IF name = "lastUsed"
              THEN KeyMembers(rest, [acc EXCEPT !.lastUsed = toks[2].s])
              ELSE KeyMembers(rest, acc)
         ELSE IF toks[2].t \in {"num", "frac"}
         THEN IF name \in {"seed", "createdAt", "lastUsed"}
              THEN [acc EXCEPT !.err = "cannot unmarshal number"]
              ELSE KeyMembers(SubSeq(toks, 3, Len(toks)), acc)
         ELSE [acc EXCEPT !.err = "invalid character"]

UnmarshalKeyFile(toks) ==
    IF toks = <<KNull>> THEN NoFields
    ELSE IF Len(toks) < 2 \/ toks[1] /= KPunct("{")
            \/ toks[Len(toks)] /= KPunct("}")
    THEN [NoFields EXCEPT !.err = "invalid character"]
    ELSE KeyMembers(SubSeq(toks, 2, Len(toks) - 1), NoFields)

\* byte(v): the low eight bits of v.
ToByte(v) == v % 256

\* The public key of a seed: a fixed function of the seed's bytes (stands
\* for the Ed25519 derivation).
PublicFromSeed(seed) == [i \in 1..Len(seed) |-> (seed[i] * 5 + i) % 256]

\* ed25519.NewKeyFromSeed panics unless the seed has SeedSize bytes; the
\* private key is the seed followed by the public key.
NewKeyFromSeed(seed) ==
    IF Len(seed) /= SeedSize
    THEN [panic |-> TRUE, pub |-> <<>>, priv |-> <<>>]
    ELSE [panic |-> FALSE, pub |-> PublicFromSeed(seed),
          priv |-> seed \o PublicFromSeed(seed)]

NoKeypair ==
    [seed |-> <<>>, createdAt |-> "", lastUsed |-> "", pub |-> <<>>,
     priv |-> <<>>]
NoFile == [exists |-> FALSE, readable |-> FALSE, toks |-> <<>>]

\* time.Now().Format(time.RFC3339) at tick t.
Stamps == <<"2025-01-01T00:00:01Z", "2025-01-01T00:00:02Z",
            "2025-01-01T00:00:03Z", "2025-01-01T00:00:04Z">>
Now(t) == Stamps[t]

\* Variant of LoadKeypair that stamps the file with a new lastUsed.
LoadKeypairTouch(file) ==
    IF ~file.readable
    THEN [status |-> "fatal", kp |-> NoKeypair, file |-> file]
    ELSE LET f == UnmarshalKeyFile(file.toks) IN
         IF f.err /= ""
         THEN [status |-> "fatal", kp |-> NoKeypair, file |-> file]
         ELSE LET seed == [i \in 1..Len(f.seed) |-> ToByte(f.seed[i])]
                  k == NewKeyFromSeed(seed) IN
              IF k.panic
              THEN [status |-> "panic", kp |-> NoKeypair, file |-> file]
              ELSE [status |-> "returned",
                    kp |-> [seed |-> seed, createdAt |-> f.createdAt,
                            lastUsed |-> "now", pub |-> k.pub,
                            priv |-> k.priv],
                    file |-> [file EXCEPT !.toks =
                                MarshalKeyFile(f.seed, f.createdAt, "now")]]

\* The branch of LoadOrGenerateKeypair for an existing file: read, parse,
\* convert the seed entries to bytes, derive the keys, keep the stored
\* timestamps. log.Fatal ends the process, and so does the panic of
\* NewKeyFromSeed.
LoadKeypair(file) ==
    IF ~file.readable
    THEN [status |-> "fatal", kp |-> NoKeypair, file |-> file]
    ELSE LET f == UnmarshalKeyFile(file.toks) IN
         IF f.err /= ""
         THEN [status |-> "fatal", kp |-> NoKeypair, file |-> file]
         ELSE LET seed == [i \in 1..Len(f.seed) |-> ToByte(f.seed[i])]
                  k == NewKeyFromSeed(seed) IN
              IF k.panic
              THEN [status |-> "panic", kp |-> NoKeypair, file |-> file]
              ELSE [status |-> "returned",
                    kp |-> [seed |-> seed, createdAt |-> f.createdAt,
                            lastUsed |-> f.lastUsed, pub |-> k.pub,
                            priv |-> k.priv],
                    file |-> file]

\* The branch for no file: a random seed, the keys, both timestamps set to
\* now, and the file written. The write creates the file ("ok"), fails
\* before creating it ("nocreate") or fails after truncating it ("partial").
GenerateKeypair(file, dir, seed, now, wres) ==
    LET k == NewKeyFromSeed(seed)
        seedInt == [i \in 1..Len(seed) |-> seed[i]]
        text == MarshalKeyFile(seedInt, now, now) IN
    IF dir /= "ok" \/ wres = "nocreate"
    THEN [status |-> "fatal", kp |-> NoKeypair, file |-> file]
    ELSE IF wres = "partial"
    THEN [status |-> "fatal", kp |-> NoKeypair,
          file |-> [exists |-> TRUE, readable |-> TRUE, toks |-> <<>>]]
    ELSE [status |-> "returned",
          kp |-> [seed |-> seed, createdAt |-> now, lastUsed |-> now,
                  pub |-> k.pub, priv |-> k.priv],
          file |-> [exists |-> TRUE, readable |-> TRUE, toks |-> text]]

\* The seeds rand.Read may give.
SeedSamples ==
    {[i \in 1..SeedSize |-> IF i = 1 THEN a ELSE b] :
        a \in {0, 255}, b \in {1, 128}}

\* LoadOrGenerateKeypair, called once at the start of a process: os.Stat
\* succeeds when the directory can be accessed and the file exists.
LoadOrGenerateKeypair(seed, wres) ==
    /\ Len(kruns) < MaxLoads
    /\ LET found == kdir = "ok" /\ kfile.exists
           r == IF found THEN LoadKeypair(kfile)
                ELSE GenerateKeypair(kfile, kdir, seed, Now(kclock), wres) IN
       /\ kfile' = r.file
       /\ kruns' = Append(kruns,
             [branch |-> IF found THEN "load" ELSE "generate",
              status |-> r.status, kp |-> r.kp, before |-> kfile,
              after |-> r.file])
    /\ kclock' = kclock + 1
    /\ UNCHANGED <<kdir, routerVars, directVars, resolverVars, didVars,
                   mainVars, outVars, apiVars, meshVars, svcVars>>

\* Key files found on disk at the first start.
SeedOf(a) == [i \in 1..SeedSize |-> a]
FileStamps == <<"2024-06-01T10:00:00Z", "2024-06-02T12:30:00Z">>
TextGood == MarshalKeyFile(SeedOf(7), FileStamps[1], FileStamps[2])
TextReordered ==
    <<KPunct("{"), KKey("lastUsed"), KStr(FileStamps[2]), KKey("seed"),
      KPunct("[")>> \o [i \in 1..SeedSize |-> KNum(7)]
        \o <<KPunct("]"), KKey("createdAt"), KStr(FileStamps[1]),
             KPunct("}")>>
TextShort ==
    MarshalKeyFile([i \in 1..(SeedSize - 1) |-> 7], FileStamps[1],
                   FileStamps[2])
TextLong ==
    MarshalKeyFile([i \in 1..(SeedSize + 1) |-> 7], FileStamps[1],
                   FileStamps[2])
TextNoSeed ==
    <<KPunct("{"), KKey("createdAt"), KStr(FileStamps[1]), KPunct("}")>>
TextTooBig ==
    MarshalKeyFile([SeedOf(7) EXCEPT ![1] = 256], FileStamps[1],
                   FileStamps[2])
TextNegative ==
    MarshalKeyFile([SeedOf(7) EXCEPT ![SeedSize] = -1], FileStamps[1],
                   FileStamps[2])
TextFraction ==
    [TextGood EXCEPT ![4] = KFrac("1.5")]
TextSeedString ==
    <<KPunct("{"), KKey("seed"), KStr("abc"), KPunct("}")>>
TextTruncated == SubSeq(TextGood, 1, 10)
TextNotJSON == <<KKey("seed")>>
TextEmpty == <<>>
KeyTexts ==
    {TextGood, TextReordered, TextShort, TextLong, TextNoSeed, TextTooBig,
     TextNegative, TextFraction, TextSeedString, TextTruncated, TextNotJSON,
     TextEmpty, <<KNull>>}
KeyFiles ==
    {NoFile} \cup [exists : {TRUE}, readable : BOOLEAN, toks : KeyTexts]

KeyIdle ==
    /\ kfile = NoFile
    /\ kdir = "ok"
    /\ kruns = <<>>
    /\ kclock = 1

KeyInit ==
    /\ kfile \in KeyFiles
    /\ kdir \in {"ok", "noaccess"}
    /\ kruns = <<>>
    /\ kclock = 1

KeyNext ==
    \E seed \in SeedSamples, wres \in {"ok", "nocreate", "partial"} :
        LoadOrGenerateKeypair(seed, wres)

--------------------------------------------------------------------------
\* The bootstrap mesh: randomNeighbors and the connect loop of the
\* bootstrap main.

\* len(ports)
NumPorts == 9

\* The indices 0..len(ports)-1 without exclude, in order.
IndicesExcluding(exclude) ==
    [k \in 1..(NumPorts - 1) |-> IF k - 1 < exclude THEN k - 1 ELSE k]

\* indices[i], indices[j] = indices[j], indices[i] (positions from 0).
Swap(seq, i, j) ==
    [seq EXCEPT ![i + 1] = seq[j + 1], ![j + 1] = seq[i + 1]]

\* rand.Shuffle: for i from the last position down to 1, swap position i
\* with a random position j in 0..i; draws holds the numbers j in order.
RECURSIVE Shuffle(_, _, _)
Shuffle(seq, i, draws) ==
    IF i < 1 \/ draws = <<>> THEN seq
    ELSE Shuffle(Swap(seq, i, Head(draws)), i - 1, Tail(draws))

\* Variant of randomNeighbors that leaves the excluded index in.
randomNeighborsNoExclude(n, exclude, draws, c) ==
    LET indices == Shuffle([k \in 1..NumPorts |-> k - 1], NumPorts - 2,
                           draws)
        count == IF 4 + c > Len(indices) THEN Len(indices) ELSE 4 + c IN
    SubSeq(indices, 1, count)

\* randomNeighbors(n, exclude) with the numbers its random source gives:
\* draws for the shuffle and c for rand.Intn(2). n is not used.
randomNeighbors(n, exclude, draws, c) ==
    LET indices == Shuffle(IndicesExcluding(exclude), NumPorts - 2, draws)
        count == IF 4 + c > Len(indices) THEN Len(indices) ELSE 4 + c IN
    SubSeq(indices, 1, count)

nonMeshVars ==
    <<routerVars, directVars, resolverVars, didVars, mainVars, outVars,
      apiVars, keyVars, svcVars>>
loopVars == <<mi, mnbrs, mk, mfail, mstate, mtried>>
callVars == <<nexcl, ndraws, nres, npc>>

\* rand.Shuffle draws its next number.
ShuffleDraw(j) ==
    /\ npc = "shuffle"
    /\ Len(ndraws) < NumPorts - 2
    /\ j <= NumPorts - 2 - Len(ndraws)
    /\ ndraws' = Append(ndraws, j)
    /\ UNCHANGED <<nexcl, nres, npc, loopVars, nonMeshVars>>

\* rand.Intn(2) is drawn and randomNeighbors returns.
NeighborsReturn(c) ==
    /\ npc = "shuffle"
    /\ Len(ndraws) = NumPorts - 2
    /\ nres' = randomNeighbors(NumPorts, nexcl, ndraws, c)
    /\ ndraws' = <<>>
    /\ npc' = "returned"
    /\ UNCHANGED <<nexcl, loopVars, nonMeshVars>>

MeshIdle ==
    /\ nexcl = 0
    /\ ndraws = <<>>
    /\ nres = <<>>
    /\ npc = "idle"
    /\ mi = 0
    /\ mnbrs = <<>>
    /\ mk = 0
    /\ mfail = FALSE
    /\ mstate = "idle"
    /\ mtried = <<>>

\* randomNeighbors is called for one of the nodes.
NeighborsInit ==
    /\ nexcl \in 0..(NumPorts - 1)
    /\ ndraws = <<>>
    /\ nres = <<>>
    /\ npc = "shuffle"
    /\ mi = 0
    /\ mnbrs = <<>>
    /\ mk = 0
    /\ mfail = FALSE
    /\ mstate = "idle"
    /\ mtried = <<>>

NeighborsNext ==
    \/ \E j \in 0..(NumPorts - 2) : ShuffleDraw(j)
    \/ \E c \in {0, 1} : NeighborsReturn(c)

\* The random numbers given to rand.Shuffle in the connect loop: at each
\* position either the first position or the position itself.
MeshDraws ==
    {d \in [1..(NumPorts - 2) -> 0..(NumPorts - 2)] :
        \A k \in 1..(NumPorts - 2) : d[k] \in {0, NumPorts - 1 - k}}

\* neighbors := randomNeighbors(len(ports), i) for the next host.
SelectNeighbors(draws, c) ==
    /\ mstate = "select"
    /\ mnbrs' = randomNeighbors(NumPorts, mi, draws, c)
    /\ mk' = 0
    /\ mtried' = <<>>
    /\ mstate' = "connect"
    /\ UNCHANGED <<mi, mfail, callVars, nonMeshVars>>

\* Variant of ConnectAttempt that ends the process when h.Connect fails.
ConnectAttemptFatal(ok) ==
    /\ mstate = "connect"
    /\ mk < Len(mnbrs)
    /\ mtried' = Append(mtried, mnbrs[mk + 1])
    /\ mk' = mk + 1
    /\ mfail' = (mfail \/ ~ok)
    /\ mstate' = IF ok THEN "connect" ELSE "exited"
    /\ UNCHANGED <<mi, mnbrs, callVars, nonMeshVars>>

\* h.Connect to the next neighbor returns; the outcome is logged.
ConnectAttempt(ok) ==
    /\ mstate = "connect"
    /\ mk < Len(mnbrs)
    /\ mtried' = Append(mtried, mnbrs[mk + 1])
    /\ mk' = mk + 1
    /\ mfail' = (mfail \/ ~ok)
    /\ UNCHANGED <<mi, mnbrs, mstate, callVars, nonMeshVars>>

\* The inner loop is over; the outer loop goes to the next host, or ends.
NextNode ==
    /\ mstate = "connect"
    /\ mk = Len(mnbrs)
    /\ mi' = mi + 1
    /\ mstate' = IF mi + 1 = NumPorts THEN "meshed" ELSE "select"
    /\ UNCHANGED <<mnbrs, mk, mtried, mfail, callVars, nonMeshVars>>

\* The bootstrap nodes exist and the connect loop starts at host 0.
MeshInit ==
    /\ nexcl = 0
    /\ ndraws = <<>>
    /\ nres = <<>>
    /\ npc = "idle"
    /\ mi = 0
    /\ mnbrs = <<>>
    /\ mk = 0
    /\ mfail = FALSE
    /\ mstate = "select"
    /\ mtried = <<>>

MeshNext ==
    \/ \E draws \in MeshDraws, c \in {0, 1} : SelectNeighbors(draws, c)
    \/ \E ok \in BOOLEAN : ConnectAttempt(ok)
    \/ NextNode

--------------------------------------------------------------------------
\* Services: NewLibp2pNodeService.

\* The identity string and the seed of a gateway.
GatewayDID == <<"g", "a", "t", "e", "w", "a", "y">>
GatewaySeed == [i \in 1..SeedSize |-> IF i = 1 THEN 32 ELSE 0]

\* A Keypair that LoadOrGenerateKeypair returned for a seed.
KeypairOf(seed) ==
    [seed |-> seed, createdAt |-> Now(1), lastUsed |-> Now(1),
     pub |-> NewKeyFromSeed(seed).pub, priv |-> NewKeyFromSeed(seed).priv]

\* Variant of NewLibp2pNodeService in which a gateway keeps the keypair it
\* was given.
NewLibp2pNodeServiceKeepsKey(kp, isGateway) ==
    [keypair |-> kp,
     did |-> IF isGateway THEN GatewayDID ELSE ToSightDID(kp.pub),
     isGateway |-> isGateway]

\* NewLibp2pNodeService: a gateway is named `gateway` and gets the keypair of
\* the fixed seed (only its key fields are set); any other service is named
\* by the DID of the public key it was given and keeps its keypair.
NewLibp2pNodeService(kp, isGateway) ==
    [keypair |-> IF isGateway
                 THEN [NoKeypair EXCEPT
                          !.priv = NewKeyFromSeed(GatewaySeed).priv,
                          !.pub = NewKeyFromSeed(GatewaySeed).pub]
                 ELSE kp,
     did |-> IF isGateway THEN GatewayDID ELSE ToSightDID(kp.pub),
     isGateway |-> isGateway]

\* The arguments services are constructed from.
ServiceKeys ==
    {KeypairOf([i \in 1..SeedSize |-> a]) : a \in {1, 2}}
ServiceArgs == [kp : ServiceKeys, isGateway : BOOLEAN]

\* The specifications that do not look at the construction leave the
\* services unrecorded.
NoService == [args |-> <<>>, keypair |-> NoKeypair, did |-> <<>>,
              isGateway |-> FALSE]
SvcIdle == svc = [n \in Node |-> NoService]

\* Envelopes on the topic: addressed to `gateway` with and without a
\* payload, to the DID of a key, to `Gateway`, to nobody, and one that is
\* cut off.
EnvelopeTo(to) ==
    <<LBrace, StrLit("to"), Colon, StrLit(to), Comma, StrLit("payload"),
      Colon>> \o HiObj \o <<RBrace>>
GatewayData ==
    {EnvelopeTo(GatewayDID),
     <<LBrace, StrLit("to"), Colon, StrLit(GatewayDID), RBrace>>,
     EnvelopeTo([GatewayDID EXCEPT ![1] = "G"]),
     DirectNoTo,
     <<LBrace, StrLit("to"), Colon, StrLit(GatewayDID)>>}
    \cup {EnvelopeTo(ToSightDID(k.pub)) : k \in ServiceKeys}

\* Two services constructed from any arguments, subscribed to the topic.
GatewayInit ==
    /\ \E cfg \in [Node -> ServiceArgs] :
          svc = [n \in Node |->
                    [args |-> cfg[n]]
                       @@ NewLibp2pNodeService(cfg[n].kp, cfg[n].isGateway)]
    /\ did = [n \in Node |-> svc[n].did]
    /\ msgs = <<>>
    /\ rd = [n \in Node |-> 0]
    /\ dpc = [n \in Node |-> "next"]
    /\ dlog = [n \in Node |-> <<>>]
    /\ sink = [n \in Node |-> <<>>]
    /\ http = <<>>

GatewayNext ==
    \/ \E data \in GatewayData : ExternalPublish(data)
    \/ \E n \in Node : handleIncomingMessages(n)
    \/ \E n \in Node, ok \in BOOLEAN : PostReturns(n, ok)

--------------------------------------------------------------------------
\* Process lifecycle: main starts the HTTP server in a goroutine, waits for
\* the interrupt signal, then calls service.Stop and srv.Shutdown.

others == <<routerVars, directVars, resolverVars, didVars, outVars, apiVars, keyVars, meshVars, svcVars>>
ShutdownCalled == \E i \in 1..Len(steps) : steps[i] = "srv.Shutdown"

\* srv.ListenAndServe binds the port and serves.
ListenAndServe ==
    /\ exit = "none"
    /\ spc = "starting"
    /\ ~ShutdownCalled
    /\ spc' = "listening"
    /\ UNCHANGED <<mpc, host, drain, inflight, accepted, late, steps, exit, others>>

\* srv.ListenAndServe returns an error at once: ErrServerClosed when
\* Shutdown was already called, else the error of the bind.
ListenFails ==
    /\ exit = "none"
    /\ spc = "starting"
    /\ spc' = IF ShutdownCalled THEN "closed" ELSE "failed"
    /\ UNCHANGED <<mpc, host, drain, inflight, accepted, late, steps, exit, others>>

\* The server accepts a request and starts its handler.
RequestArrives ==
    /\ exit = "none"
    /\ spc = "listening"
    /\ accepted < MaxRequests
    /\ accepted' = accepted + 1
    /\ inflight' = inflight + 1
    /\ late' = IF host = "closed" THEN late + 1 ELSE late
    /\ UNCHANGED <<mpc, spc, host, drain, steps, exit, others>>

\* A request handler returns.
RequestDone ==
    /\ exit = "none"
    /\ inflight > 0
    /\ inflight' = inflight - 1
    /\ UNCHANGED <<mpc, spc, host, drain, accepted, late, steps, exit, others>>

\* The interrupt signal is delivered: <-stop returns.
Signal ==
    /\ exit = "none"
    /\ mpc = "waiting"
    /\ mpc' = "signalled"
    /\ UNCHANGED <<spc, host, drain, inflight, accepted, late, steps, exit, others>>

\* service.Stop(): s.node.Close() closes the libp2p host.
Stop ==
    /\ exit = "none"
    /\ mpc = "signalled"
    /\ host' = "closed"
    /\ steps' = Append(steps, "host.Close")
    /\ mpc' = "stopped"
    /\ UNCHANGED <<spc, drain, inflight, accepted, late, exit, others>>

\* srv.Shutdown is called: the listeners are closed, ListenAndServe returns
\* ErrServerClosed, and Shutdown waits for the requests in progress.
ShutdownCall ==
    /\ exit = "none"
    /\ mpc = "stopped"
    /\ steps' = Append(steps, "srv.Shutdown")
    /\ spc' = IF spc = "listening" THEN "closed" ELSE spc
    /\ mpc' = "shutting"
    /\ UNCHANGED <<host, drain, inflight, accepted, late, exit, others>>

\* srv.Shutdown returns once no request is in progress.
ShutdownReturns ==
    /\ exit = "none"
    /\ mpc = "shutting"
    /\ inflight = 0
    /\ mpc' = "shutdown"
    /\ UNCHANGED <<spc, host, drain, inflight, accepted, late, steps, exit, others>>

\* main returns: the process ends with code 0 and every goroutine with it.
MainReturns ==
    /\ exit = "none"
    /\ mpc = "shutdown"
    /\ exit' = "0"
    /\ drain' = "dead"
    /\ UNCHANGED <<mpc, spc, host, inflight, accepted, late, steps, others>>

\* The server goroutine sees ListenAndServe's error (the bind error or
\* ErrServerClosed, both non-nil) and calls log.Fatal.
ServerFatal ==
    /\ exit = "none"
    /\ spc \in {"failed", "closed"}
    /\ exit' = "1"
    /\ drain' = "dead"
    /\ UNCHANGED <<mpc, spc, host, inflight, accepted, late, steps, others>>

MainIdle ==
    /\ mpc = "idle"
    /\ spc = "idle"
    /\ host = "open"
    /\ drain = "running"
    /\ inflight = 0
    /\ accepted = 0
    /\ late = 0
    /\ steps = <<>>
    /\ exit = "none"

\* main has started the server goroutine and waits for the signal.
MainInit ==
    /\ mpc = "waiting"
    /\ spc = "starting"
    /\ host = "open"
    /\ drain = "running"
    /\ inflight = 0
    /\ accepted = 0
    /\ late = 0
    /\ steps = <<>>
    /\ exit = "none"

MainNext ==
    \/ ListenAndServe
    \/ ListenFails
    \/ RequestArrives
    \/ RequestDone
    \/ Signal
    \/ Stop
    \/ ShutdownCall
    \/ ShutdownReturns
    \/ MainReturns
    \/ ServerFatal

RouterInit ==
    /\ did = NodeDID
    /\ msgs = <<>>
    /\ rd = [n \in Node |-> 0]
    /\ dpc = [n \in Node |-> "next"]
    /\ dlog = [n \in Node |-> <<>>]
    /\ sink = [n \in Node |-> <<>>]
    /\ http = <<>>

RouterNext ==
    \/ \E n \in HttpNode, body \in Bodies, pubOk \in BOOLEAN :
          SendHandler(n, body, pubOk)
    \/ \E data \in ExtData : ExternalPublish(data)
    \/ \E n \in Node : handleIncomingMessages(n)
    \/ \E n \in Node, ok \in BOOLEAN : PostReturns(n, ok)
    \/ \E n \in Node : SubscriptionError(n)

\* The broadcast path and the HTTP send API.
Init == RouterInit /\ DirectInit /\ ResolverInit /\ DIDIdle /\ MainIdle /\ OutInit /\ ApiInit /\ KeyIdle /\ MeshIdle /\ SvcIdle

Next == RouterNext

Spec == Init /\ [][Next]_vars

\* The broadcast inbound path with its drain loops running: the task of
\* handleIncomingMessages is scheduled whenever the subscription has a
\* message for it. The topic carries short envelopes: one addressed to Y,
\* one addressed to A, and one that is cut off.
ExtCut == <<LBrace, StrLit("to")>>
DrainData == {ExtBare, ExtNoPayload, ExtCut}
DrainNext ==
    \/ \E data \in DrainData : ExternalPublish(data)
    \/ \E n \in Node : handleIncomingMessages(n)
    \/ \E n \in Node, ok \in BOOLEAN : PostReturns(n, ok)
    \/ \E n \in Node : SubscriptionError(n)
DrainFairness == \A n \in Node : WF_vars(handleIncomingMessages(n))
SpecDrain == Init /\ [][DrainNext]_vars /\ DrainFairness

\* The direct-stream path.
SpecDirect == Init /\ [][DirectNext]_vars

\* The public-key resolver.
SpecResolver == Init /\ [][ResolverNext]_vars

\* The DID codec applied to sample keys and texts.
InitDID == RouterInit /\ DirectInit /\ ResolverInit /\ DIDInit /\ MainIdle /\ OutInit /\ ApiInit /\ KeyIdle /\ MeshIdle /\ SvcIdle
SpecDID == InitDID /\ [][DIDNext]_vars

\* One node with its broadcast drain loop and its direct-stream handlers
\* running side by side, every message being the envelope ExtBare.
TasksNext ==
    \/ ExternalPublish(ExtBare)
    \/ \E n \in DirectNode : handleIncomingMessages(n)
    \/ \E n \in DirectNode, ok \in BOOLEAN : PostReturns(n, ok)
    \/ \E n \in DirectNode : handleDirectIncomingMessage(n, ExtBare)
    \/ \E s \in 1..Len(streams) : RemoteWrite(s, Len(streams[s].pending))
    \/ \E s \in 1..Len(streams), how \in {"closed", "reset"} :
          RemoteEnds(s, how)
    \/ \E s \in 1..Len(streams) : DirectReadReturns(s)
    \/ \E s \in 1..Len(streams), ok \in BOOLEAN : DirectPostReturns(s, ok)
SpecTasks == Init /\ [][TasksNext]_vars

\* A node that serves send and send-direct requests, and the node that
\* receives what it sends; the sink answers every POST and the calls end
\* within their deadline.
SpecFraming == Init /\ [][FramingNext]_vars

\* The outbound calls of one node.
SpecOut == Init /\ [][OutNext]_vars

\* The HTTP router of one node.
SpecApi == Init /\ [][ApiNext]_vars

\* The starts of the process against one key file.
InitKey ==
    /\ RouterInit /\ DirectInit /\ ResolverInit /\ DIDIdle /\ MainIdle
    /\ OutInit /\ ApiInit /\ KeyInit /\ MeshIdle /\ SvcIdle
SpecKey == InitKey /\ [][KeyNext]_vars

\* One call of randomNeighbors.
InitNeighbors ==
    /\ RouterInit /\ DirectInit /\ ResolverInit /\ DIDIdle /\ MainIdle
    /\ OutInit /\ ApiInit /\ KeyIdle /\ NeighborsInit /\ SvcIdle
SpecNeighbors == InitNeighbors /\ [][NeighborsNext]_vars

\* The connect loop of the bootstrap main.
InitMesh ==
    /\ RouterInit /\ DirectInit /\ ResolverInit /\ DIDIdle /\ MainIdle
    /\ OutInit /\ ApiInit /\ KeyIdle /\ MeshInit /\ SvcIdle
SpecMesh == InitMesh /\ [][MeshNext]_vars

\* Services constructed as gateways or not, draining the shared topic.
InitGateway ==
    /\ GatewayInit /\ DirectInit /\ ResolverInit /\ DIDIdle /\ MainIdle
    /\ OutInit /\ ApiInit /\ KeyIdle /\ MeshIdle
SpecGateway == InitGateway /\ [][GatewayNext]_vars

\* The process from the start of the HTTP server to its exit.
InitMain == RouterInit /\ DirectInit /\ ResolverInit /\ DIDIdle /\ MainInit /\ OutInit /\ ApiInit /\ KeyIdle /\ MeshIdle /\ SvcIdle
SpecMain == InitMain /\ [][MainNext]_vars

--------------------------------------------------------------------------
\* Properties of the broadcast path.

\* The POSTs node n issued for the i-th message of the topic.
BroadcastPosts(n, i) ==
    {j \in 1..Len(sink[n]) : sink[n][j].via = "broadcast" /\ sink[n][j].ref = i}

\* The i-th message is an envelope whose `to` is the identity of node n.
AddressedTo(n, i) ==
    LET u == Unmarshal(msgs[i].data) IN
    ~u.err /\ Index(u.v, "to") = JStr(did[n])

\* C1: a broadcast message whose `to` is not this node's identity is never
\* POSTed to the sink; one whose `to` is this node's identity is POSTed
\* exactly once as soon as the drain loop has taken it, and never twice.
C1_RecipientFiltering ==
    \A n \in Node : \A i \in 1..Len(msgs) :
        /\ Cardinality(BroadcastPosts(n, i)) <= 1
        /\ ~AddressedTo(n, i) => BroadcastPosts(n, i) = {}
        /\ (AddressedTo(n, i) /\ i <= rd[n]) =>
               Cardinality(BroadcastPosts(n, i)) = 1

\* A node has taken one message addressed to it and one that is not.
C1_Witness ==
    \E n \in Node : \E i, j \in 1..rd[n] :
        /\ AddressedTo(n, i) /\ Cardinality(BroadcastPosts(n, i)) = 1
        /\ ~AddressedTo(n, j) /\ ~Unmarshal(msgs[j].data).err

\* The payloads node A sends in the end-to-end scenario.
ScenarioPayloads ==
    {JObj(<<Member("text", JStr("hi")), Member("to", JStr(IdY))>>),
     JObj(<<Member("text", JStr("hi"))>>)}

\* The i-th message is the envelope {to: Y, payload: P} published by A.
PublishedToY(i, P) ==
    /\ msgs[i].src = "http"
    /\ msgs[i].data =
          Marshal(JObj(<<Member("payload", P), Member("to", JStr(IdY))>>))

\* C3: when A publishes {to: Y's identity, payload: P}, Y's sink gets exactly
\* one POST for it once Y's loop has taken it, with body P (not the
\* envelope), and A's sink gets none.
C3_EndToEndBroadcast ==
    \A i \in 1..Len(msgs) : \A P \in ScenarioPayloads :
        PublishedToY(i, P) =>
            /\ BroadcastPosts("A", i) = {}
            /\ i <= rd["Y"] =>
                  /\ Cardinality(BroadcastPosts("Y", i)) = 1
                  /\ \A j \in BroadcastPosts("Y", i) :
                        sink["Y"][j].body = Marshal(P)

\* A published to Y; both loops have taken the message and Y's POST returned.
C3_Witness ==
    \E i \in 1..Len(msgs) : \E P \in ScenarioPayloads :
        /\ PublishedToY(i, P)
        /\ i <= rd["A"] /\ i <= rd["Y"]
        /\ dpc["Y"] = "next"
        /\ \E j \in BroadcastPosts("Y", i) : sink["Y"][j].body = Marshal(P)

\* The body is one JSON text (nothing follows the value) and it is an object.
IsJSON(body) ==
    LET r == ScanValue(body, 1) IN r.ok /\ r.nxt = Len(body) + 1
IsJSONObject(body) == IsJSON(body) /\ ScanValue(body, 1).v.t = "obj"

\* C9: a /libp2p/send body that is a JSON object B is published once as
\* {to: B.to, payload: B} and answered 200 {"status":"ok"}; a body that is
\* not JSON is answered 400 and nothing is published.
C9_SendHandler ==
    \A h \in 1..Len(http) :
        LET B == ScanValue(http[h].body, 1).v IN
        /\ IsJSONObject(http[h].body) =>
              /\ http[h].attempts =
                    <<Marshal(JObj(<<Member("payload", B),
                                     Member("to", Index(B, "to"))>>))>>
              /\ http[h].status = 200
              /\ http[h].resp = OkResponse
        /\ ~IsJSON(http[h].body) =>
              /\ http[h].attempts = <<>>
              /\ http[h].status = 400

\* C10: a failed publish is attempted once, is answered like a successful
\* one, and leaves the service and the topic as they were.
C10_FireAndForget ==
    /\ [](\A h \in 1..Len(http) :
            (~http[h].pubOk /\ http[h].status = 200) =>
                /\ Len(http[h].attempts) = 1
                /\ http[h].resp = OkResponse)
    /\ [](\A h, g \in 1..Len(http) :
            (http[h].status = 200 /\ http[g].status = 200) =>
                http[h].resp = http[g].resp)
    /\ [][(Len(http') = Len(http) + 1 /\ ~http'[Len(http')].pubOk) =>
             UNCHANGED <<did, msgs, rd, dpc, dlog, sink>>]_vars

\* A request whose publish failed has been answered, after one that succeeded.
C10_Witness ==
    \E h, g \in 1..Len(http) :
        /\ ~http[h].pubOk /\ http[h].status = 200 /\ Len(http[h].attempts) = 1
        /\ http[g].pubOk /\ http[g].status = 200

--------------------------------------------------------------------------
\* Properties of the direct-stream path.

\* The POSTs issued for stream s.
DirectPosts(s) ==
    {j \in 1..Len(sink[streams[s].node]) :
        /\ sink[streams[s].node][j].via = "direct"
        /\ sink[streams[s].node][j].ref = s}

\* Stream s carried a JSON object and was read to its end.
ArrivedWellFormed(s) ==
    /\ streams[s].remote = "closed"
    /\ streams[s].hpc /= "reading"
    /\ IsJSONObject(streams[s].buf)

\* C2: every well-formed envelope read from a direct stream is POSTed to the
\* sink (its `payload` member, once), whatever its `to` member is.
C2_DirectUnconditional ==
    \A s \in 1..Len(streams) :
        ArrivedWellFormed(s) =>
            /\ Cardinality(DirectPosts(s)) = 1
            /\ \A j \in DirectPosts(s) :
                  sink[streams[s].node][j].body =
                     Marshal(Index(ScanValue(streams[s].buf, 1).v, "payload"))

\* An envelope addressed to another identity and one with no `to` arrived on
\* direct streams and were both forwarded.
C2_Witness ==
    \E s, t \in 1..Len(streams) :
        /\ ArrivedWellFormed(s) /\ streams[s].buf = DirectToOther
        /\ ArrivedWellFormed(t) /\ streams[t].buf = DirectNoTo
        /\ streams[s].hpc = "done" /\ streams[t].hpc = "done"
        /\ DirectPosts(s) /= {} /\ DirectPosts(t) /= {}

--------------------------------------------------------------------------
\* Properties of the public-key resolver.

\* The reference names a peer whose ID embeds its key (tier 1 applies).
Tier1Resolvable(ref) ==
    ref.enc \in {"base58", "cidv1"} /\ ref.peer \in Ed25519Peers

\* The call has not used the network: no lookup or connect was made or is
\* in progress.
NoNetworkCall(r) ==
    /\ r.pc \notin {"lookup", "connect"}
    /\ \A i \in 1..Len(r.calls) : r.calls[i].op \notin {"dht.FindPeer", "Connect"}

\* C4: a reference resolvable at tier 1 is answered by the decode alone (no
\* peerstore query, no lookup, no connect); one that is not, but whose key
\* the peerstore holds, is answered from the peerstore with no lookup and no
\* connect.
C4_FallbackOrder ==
    /\ []((req.pc /= "idle" /\ Tier1Resolvable(req.ref)) =>
            /\ req.pc = "done" /\ req.err = "" /\ req.key /= <<>>
            /\ req.calls = <<Call("DecodePublicKeyFromPeerId", TRUE)>>)
    /\ [][(/\ nreq' = nreq + 1
           /\ ~Tier1Resolvable(req'.ref)
           /\ req'.ref.peer \in peerstore) =>
              /\ req'.pc = "done" /\ req'.err = ""
              /\ req'.key = RawKey(req'.ref.peer)
              /\ NoNetworkCall(req')
              /\ UNCHANGED <<peerstore, conns>>]_vars

\* A call was answered from the peerstore (tier 2).
C4_Witness ==
    /\ req.pc = "done" /\ req.err = ""
    /\ ~Tier1Resolvable(req.ref)
    /\ Len(req.calls) = 3
    /\ req.calls[3] = Call("Peerstore.PubKey", TRUE)
    /\ req.key = RawKey(req.ref.peer)
    /\ conns = {}

\* The operations of a call, in the order they were made.
Ops(calls) == [i \in 1..Len(calls) |-> calls[i].op]
ResolverOrder ==
    <<"DecodePublicKeyFromPeerId", "peer.Decode", "Peerstore.PubKey",
      "dht.FindPeer", "Connect", "Peerstore.PubKey">>

\* The calls of the current request are in resolver order, each made only
\* after the success or failure that leads to it, and the result fits them.
Tier3Shape ==
    LET c == req.calls
        n == Len(req.calls) IN
    /\ n <= 6 /\ Ops(c) = SubSeq(ResolverOrder, 1, n)
    /\ n >= 4 => (~c[1].ok /\ c[2].ok /\ ~c[3].ok)
    /\ n >= 5 => c[4].ok
    /\ n >= 6 => c[5].ok
    /\ req.pc = "lookup" <=> (n = 3 /\ ~c[3].ok)
    /\ req.pc = "connect" <=> (n = 4 /\ c[4].ok)
    /\ (n = 4 /\ ~c[4].ok) =>
          (req.pc = "done" /\ req.err /= "" /\ req.key = <<>>)
    /\ (n = 5 /\ ~c[5].ok) =>
          (req.pc = "done" /\ req.err /= "" /\ req.key = <<>>)
    /\ (n = 6 /\ c[6].ok) =>
          (req.pc = "done" /\ req.err = "" /\ req.key = RawKey(req.ref.peer))
    /\ (n = 6 /\ ~c[6].ok) =>
          (req.pc = "done" /\ req.err = "no public key found"
              /\ req.key = <<>>)

\* C5: after tiers 1 and 2 fail the calls are lookup, connect, re-query in
\* that order; connect follows only a successful lookup and the re-query
\* only a successful connect; the result is the key the re-query found, or
\* `no public key found`; a failed lookup or connect ends the call with an
\* error and no re-query.
C5_Tier3Order ==
    /\ []Tier3Shape
    /\ [][(Len(req'.calls) = 6 /\ req'.calls /= req.calls) =>
             (req'.calls[6].ok <=> req'.ref.peer \in peerstore')]_vars

\* A call went through lookup and connect and got the key from the re-query.
C5_Witness ==
    /\ req.pc = "done" /\ req.err = ""
    /\ Len(req.calls) = 6
    /\ req.calls[6] = Call("Peerstore.PubKey", TRUE)
    /\ req.ref.peer \in conns

--------------------------------------------------------------------------
\* Properties of the DID codec.

\* C6: for every 32-byte key k, DIDToPublicKey(ToSightDID(k)) is k, with no
\* error.
C6_DIDRoundTrip ==
    (dstep = "decoded" /\ dsrc = "ToSightDID" /\ Len(dkey) = DecodedLen - 2) =>
        (dout.err = "" /\ dout.key = dkey)

\* A 32-byte key that starts with a zero byte went through both functions.
C6_Witness ==
    /\ dstep = "decoded" /\ dsrc = "ToSightDID"
    /\ Len(dkey) = DecodedLen - 2 /\ dkey[1] = 0 /\ dkey[2] = 255
    /\ dout.key = dkey

\* The bytes encoded into the text are the two multicodec bytes and 32 more.
WellFormedPayload(bytes) ==
    /\ Len(bytes) = DecodedLen
    /\ bytes[1] = MulticodecEd
    /\ bytes[2] = MulticodecOne

Rejected == dout.err /= "" /\ dout.key = <<>>

\* C7: DIDToPublicKey returns an error and no key for a text without the
\* scheme literal, for a text whose decoded payload is not 34 bytes or does
\* not start with 0xed 0x01 (so for ToSightDID of a key that is not 32 bytes
\* long), and for a text that is not base58.
C7_DIDRejection ==
    dstep = "decoded" =>
        /\ ~HasPrefix(dstr, DIDPrefix) => Rejected
        /\ (dsrc \in {"ToSightDID", "forged"} /\ ~WellFormedPayload(dpayload))
              => Rejected
        /\ (dsrc = "ToSightDID" /\ Len(dkey) /= DecodedLen - 2) => Rejected
        /\ dsrc = "corrupted" => Rejected

\* ToSightDID of a 33-byte key was decoded and rejected.
C7_Witness ==
    /\ dstep = "decoded" /\ dsrc = "ToSightDID"
    /\ Len(dkey) = DecodedLen - 1
    /\ HasPrefix(dstr, DIDPrefix)
    /\ Rejected

--------------------------------------------------------------------------
\* Properties of the shutdown sequence.

\* C8: the HTTP server (and the broadcast drain) are told to stop before the
\* libp2p host is closed: whenever the host is closed, srv.Shutdown has been
\* called and the drain is no longer running, and host.Close is the last of
\* the shutdown steps.
C8_ShutdownOrdering ==
    /\ host = "closed" => (ShutdownCalled /\ drain /= "running")
    /\ \A i \in 1..Len(steps) : steps[i] = "host.Close" => i = Len(steps)
    /\ late = 0

--------------------------------------------------------------------------
\* Properties of the broadcast drain loop under per-message failures.

\* The POSTs node n issued for the message at position j of the topic.
PostsFor(n, j) ==
    {k \in 1..Len(sink[n]) : sink[n][k].via = "broadcast" /\ sink[n][k].ref = j}

\* Every message the loop has taken was POSTed once if it parses and is
\* addressed to the node, and never otherwise, whatever happened to the
\* messages before it.
AtMostOnce ==
    \A n \in Node : \A j \in 1..rd[n] :
        Cardinality(PostsFor(n, j)) =
            IF BroadcastDecision(did[n], msgs[j].data).post THEN 1 ELSE 0

\* The loop logs one outcome per message it is done with.
OneOutcomePerMessage ==
    \A n \in Node :
        Len(dlog[n]) = IF dpc[n] = "posting" THEN rd[n] - 1 ELSE rd[n]

\* C11: after a message that fails to parse and after a message whose POST
\* fails, the loop is back at Next (it does not stop), the failed message is
\* not POSTed again and not put back on the topic, and every later message
\* addressed to the node is still POSTed exactly once.
C11_RecoverableFailures ==
    /\ []AtMostOnce
    /\ []OneOutcomePerMessage
    /\ [][\A n \in Node :
            dlog'[n] /= dlog[n] =>
                /\ dpc'[n] = "next"
                /\ sink'[n] = sink[n]
                /\ msgs' = msgs]_vars

C11_Witness ==
    \E n \in Node :
        /\ Len(dlog[n]) = 2
        /\ dlog[n][1] \in {"invalid", "forward_error"}
        /\ dlog[n][2] = "forwarded"
        /\ Cardinality(PostsFor(n, 2)) = 1

--------------------------------------------------------------------------
\* Properties of the tasks of one node running side by side.

\* A stream handler that waits for bytes or for the sink's response.
BlockedStream(s) ==
    \/ streams[s].hpc = "reading" /\ streams[s].remote = "open"
    \/ streams[s].hpc = "posting"

\* Every task can make the step it is ready for, whatever the other tasks
\* are waiting for.
TasksIndependent ==
    /\ \A n \in DirectNode :
          (dpc[n] = "next" /\ rd[n] < Len(msgs))
              => ENABLED handleIncomingMessages(n)
    /\ \A n \in DirectNode :
          dpc[n] = "posting" => ENABLED PostReturns(n, TRUE)
    /\ \A s \in 1..Len(streams) :
          (streams[s].hpc = "reading" /\ streams[s].remote /= "open")
              => ENABLED DirectReadReturns(s)
    /\ \A s \in 1..Len(streams) :
          (streams[s].hpc = "reading" /\ streams[s].remote = "open"
              /\ streams[s].pending /= <<>>)
              => ENABLED RemoteWrite(s, Len(streams[s].pending))
    /\ \A s \in 1..Len(streams) :
          streams[s].hpc = "posting" => ENABLED DirectPostReturns(s, TRUE)
    /\ \A n \in DirectNode :
          Len(streams) < MaxStreams
              => ENABLED handleDirectIncomingMessage(n, ExtBare)

\* C12: a direct-stream handler blocked on its stream or on the sink never
\* prevents another handler or the broadcast drain loop from taking its next
\* step, the drain loop blocked on the sink never prevents a handler from
\* taking its next step, a step of one task leaves the other tasks where
\* they are, and the registered stream handler returns at once, leaving the
\* reading to the task it started.
C12_TaskIndependence ==
    /\ []TasksIndependent
    /\ [][/\ \A s \in 1..Len(streams) :
               streams'[s] /= streams[s] =>
                   /\ <<rd, dpc, dlog>>' = <<rd, dpc, dlog>>
                   /\ \A t \in 1..Len(streams) :
                         t /= s => streams'[t] = streams[t]
          /\ <<rd, dpc, dlog>>' /= <<rd, dpc, dlog>> => streams' = streams
          /\ Len(streams') > Len(streams) =>
               /\ streams'[Len(streams')].hpc = "reading"
               /\ streams'[Len(streams')].buf = <<>>]_vars

C12_Witness ==
    /\ Len(streams) >= 2
    /\ BlockedStream(1)
    /\ streams[2].note = "forwarded"
    /\ \E n \in DirectNode :
          /\ dpc[n] = "posting"
          /\ Len(dlog[n]) >= 1 /\ dlog[n][1] = "forwarded"

--------------------------------------------------------------------------
\* Properties of the outbound calls.

\* The references by what they are: raw addresses, texts that are not a
\* well-formed DID, and well-formed DIDs.
RawAddrs == {MaddrP1, MaddrR1, MaddrNoPeer, MaddrBad}
MalformedDids == {DidCorrupt, DidShort, DidNoScheme, <<>>}
WellFormedDids == {DidP1, DidUnknown}
ParsableAddrs == {MaddrP1, MaddrR1}

OutOps == Ops(oc.calls)
HasOp(op) == \E i \in 1..Len(oc.calls) : oc.calls[i].op = op

\* C14: a reference that starts with "/" is connected to as a raw address
\* with no distributed lookup; a malformed DID returns an error with no
\* lookup and no connect attempt; a well-formed DID is looked up first, and
\* when the lookup finds nothing an error is returned with no connect
\* attempt.
C14_ConnectTargetResolution ==
    oc.pc /= "idle" =>
        /\ oc.ref \in RawAddrs =>
              /\ ~HasOp("FindPeer")
              /\ oc.ref \in ParsableAddrs =>
                    (oc.pc = "connect" \/ OutOps[1] = "Connect")
              /\ oc.ref \notin ParsableAddrs =>
                    (oc.pc = "done" /\ oc.err /= "" /\ oc.calls = <<>>)
        /\ oc.ref \in MalformedDids =>
              (oc.pc = "done" /\ oc.err /= "" /\ oc.calls = <<>>)
        /\ oc.ref \in WellFormedDids =>
              /\ oc.pc = "findpeer" \/ OutOps[1] = "FindPeer"
              /\ (oc.calls /= <<>> /\ ~oc.calls[1].ok) =>
                    (oc.pc = "done" /\ oc.err /= "" /\ Len(oc.calls) = 1)
              /\ HasOp("Connect") =>
                    (oc.calls[1].ok /\ OutOps[2] = "Connect")

C14_Witness ==
    /\ oc.op = "connect"
    /\ oc.ref = DidUnknown
    /\ oc.pc = "done"
    /\ oc.calls = <<Call("FindPeer", FALSE)>>
    /\ oc.err /= ""

\* The streams a call opened.
StreamsOf(k) == {i \in 1..Len(ostreams) : ostreams[i].call = k}

\* The network steps of SendDirectMessage after the lookup, in order.
SendSteps == <<"Connect", "NewStream", "Write", "Close">>

\* The steps made so far are the first steps of SendSteps (after FindPeer
\* for a DID), and a failed step ends the call, the close after a failed
\* write excepted.
SendOrder ==
    LET c == IF oc.calls /= <<>> /\ oc.calls[1].op = "FindPeer"
             THEN Tail(oc.calls) ELSE oc.calls IN
    /\ Len(c) <= Len(SendSteps)
    /\ \A i \in 1..Len(c) : c[i].op = SendSteps[i]
    /\ \A i \in 1..Len(c) :
          ~c[i].ok => (i = Len(c) \/ (c[i].op = "Write" /\ i = Len(c) - 1))
    /\ \A i \in 1..Len(oc.calls) :
          (~oc.calls[i].ok /\ oc.calls[i].op /= "Write") => i = Len(oc.calls)

\* C13: SendDirectMessage connects, opens a new stream on /test/0.0.1,
\* writes the payload and closes the stream, in this order; it opens no
\* stream when the connect step fails; a call opens at most one stream and
\* writes at most one payload to it; every stream that was opened is closed
\* (once) when the call has returned, also when the write failed.
C13_SendDirectMessage ==
    /\ oc.op = "send" => SendOrder
    /\ (oc.op = "send" /\ StreamsOf(nout) /= {}) =>
          \E i \in 1..Len(oc.calls) :
              oc.calls[i].op = "Connect" /\ oc.calls[i].ok
    /\ \A k \in 1..nout : Cardinality(StreamsOf(k)) <= 1
    /\ \A i \in 1..Len(ostreams) :
          /\ ostreams[i].proto = DirectProtocol
          /\ Len(ostreams[i].written) <= 1
          /\ ostreams[i].closes <= 1
          /\ ostreams[i].closes = 0 =>
                (oc.pc = "write" /\ oc.stream = i /\ ostreams[i].written = <<>>)
    /\ (oc.op = "send" /\ oc.pc = "done" /\ oc.err = "") =>
          /\ Cardinality(StreamsOf(nout)) = 1
          /\ \A i \in StreamsOf(nout) :
                /\ ostreams[i].written = <<oc.payload>>
                /\ ostreams[i].pid = TargetOf(oc.ref)

C13_Witness ==
    /\ oc.op = "send"
    /\ oc.pc = "done"
    /\ OutOps = <<"FindPeer", "Connect", "NewStream", "Write", "Close">>
    /\ ~oc.calls[4].ok
    /\ \E i \in StreamsOf(nout) : ostreams[i].closes = 1

\* A blocked step of a call whose deadline has passed can return.
PingNeverStuck ==
    (oc.op = "ping" /\ octx = "expired") =>
        /\ oc.pc = "findpeer" => ENABLED OutFindPeerReturns(FALSE)
        /\ oc.pc = "connect" => ENABLED OutConnectReturns(FALSE)
        /\ oc.pc = "pingstream" => ENABLED PingStreamReturns(FALSE)
        /\ oc.pc = "pingwait" => ENABLED PingResult("closed", 0)

\* C15: a ping never waits beyond its deadline, and a finished ping of a
\* peer that did not answer is reported as an error (status 500), never as
\* a round-trip time.
C15_BoundedPing ==
    /\ PingNeverStuck
    /\ (oc.op = "ping" /\ oc.pc = "done" /\ ~oc.answered) => PingStatus = 500

--------------------------------------------------------------------------
\* Properties of the HTTP surface.

\* C16: a GET /libp2p/public-key/{peerId} request is routed to the resolver
\* (GetPublicKeyHandler) and answered with 200 and the key in base58 when
\* the resolver succeeds, and with 404 when it fails.
C16_PublicKeyRoute ==
    \A i \in 1..Len(hreq) :
        (hreq[i].method = "GET" /\ hreq[i].path = PublicKeyPath) =>
            /\ hreq[i].handler = "GetPublicKeyHandler"
            /\ hreq[i].resolved.err = "" =>
                  /\ hreq[i].status = 200
                  /\ hreq[i].body = Base58Encode(hreq[i].resolved.key)
            /\ hreq[i].resolved.err /= "" => hreq[i].status = 404

--------------------------------------------------------------------------
\* Properties of the keypair store.

Generated(i) == kruns[i].branch = "generate" /\ kruns[i].status = "returned"

\* C17: once a call has generated and persisted a key file, every later
\* call loads it and returns the same seed, public key and private key and
\* the stored createdAt and lastUsed; a load leaves the file as it was, and
\* two loads of the same file return the same keypair.
C17_KeypairDeterminism ==
    /\ \A i, j \in 1..Len(kruns) :
          (i < j /\ Generated(i)) =>
              /\ kruns[j].branch = "load"
              /\ kruns[j].status = "returned"
              /\ kruns[j].kp = kruns[i].kp
              /\ kruns[j].kp.pub = PublicFromSeed(kruns[i].kp.seed)
              /\ kruns[j].after = kruns[i].after
    /\ \A j \in 1..Len(kruns) :
          kruns[j].branch = "load" => kruns[j].after = kruns[j].before
    /\ \A i, j \in 1..Len(kruns) :
          (kruns[i].branch = "load" /\ kruns[j].branch = "load") =>
              kruns[i].kp = kruns[j].kp

C17_Witness ==
    /\ Len(kruns) >= 2
    /\ Generated(1)
    /\ kruns[2].branch = "load"
    /\ kruns[2].status = "returned"
    /\ Len(kruns[2].kp.seed) = SeedSize
    /\ kruns[2].kp.createdAt = Now(1)

\* The texts that are not a key file: not JSON, a seed that is missing, not
\* an array of integers, not of 32 entries, or with an entry outside 0..255.
MalformedTexts == KeyTexts \ {TextGood, TextReordered}

\* C18: when the key file exists but cannot be read or is malformed, the
\* call ends the process (log.Fatal or a panic): it returns no keypair and
\* leaves the file as it was.
C18_LoadFailureFatal ==
    \A j \in 1..Len(kruns) :
        (/\ kruns[j].before.exists
         /\ \/ kdir /= "ok"
            \/ ~kruns[j].before.readable
            \/ kruns[j].before.toks \in MalformedTexts) =>
            /\ kruns[j].status \in {"fatal", "panic"}
            /\ kruns[j].kp = NoKeypair
            /\ kruns[j].after = kruns[j].before

--------------------------------------------------------------------------
\* Properties of the bootstrap mesh.

\* C19: for the 9 bootstrap nodes, randomNeighbors(9, i) returns, for every
\* i and every outcome of the random draws, 4 or 5 indices that are pairwise
\* distinct, within 0..8, and different from i.
C19_MeshDegree ==
    npc = "returned" =>
        /\ Len(nres) \in {4, 5}
        /\ \A a, b \in 1..Len(nres) : a /= b => nres[a] /= nres[b]
        /\ \A a \in 1..Len(nres) : nres[a] \in 0..8 /\ nres[a] /= nexcl

C19_Witness ==
    /\ npc = "returned"
    /\ nexcl = 8
    /\ Len(nres) = 5
    /\ nres[1] = 7
    /\ nres[5] = 0

\* How often node n was attempted for the host at hand.
Attempts(n) == Cardinality({k \in 1..Len(mtried) : mtried[k] = n})
Selected == {mnbrs[k] : k \in 1..Len(mnbrs)}

\* The attempts made so far are the first neighbors of the list, in order.
AttemptsInOrder ==
    mstate = "connect" =>
        /\ mtried = SubSeq(mnbrs, 1, mk)
        /\ \A n \in Selected : Attempts(n) <= 1

\* C20: for every host and every neighbor selected for it exactly one
\* connect attempt is made, whether or not earlier attempts failed: the host
\* is left only when every selected neighbor was attempted once, a failed
\* attempt is followed by the remaining ones, and no attempt ends the
\* process.
C20_IndependentAttempts ==
    /\ []AttemptsInOrder
    /\ [](mstate /= "exited")
    /\ [][/\ mi' /= mi =>
               (/\ mi' = mi + 1
                /\ \A n \in Selected : Attempts(n) = 1
                /\ \A k \in 1..Len(mtried) : mtried[k] \in Selected)
          /\ mk' = mk + 1 => (mstate' = "connect" /\ mi' = mi)]_vars

C20_Witness ==
    /\ mstate = "meshed"
    /\ mi = NumPorts
    /\ mfail
    /\ Len(mtried) = 5

--------------------------------------------------------------------------
\* Frame of the resolver on the peerstore and the connections.

\* The step is one of GetPublicKeyByPeerId: the call starts, or one of its
\* network calls returns.
ResolverStep == nreq' /= nreq \/ req' /= req

--------------------------------------------------------------------------
\* Failure handling on inbound direct streams.

\* The read of stream s failed, or what it carried is not a JSON text.
ReadOrParseFailed(s) ==
    \/ streams[s].remote = "reset"
    \/ streams[s].remote = "closed" /\ ~IsJSON(streams[s].buf)

\* The handler of stream s has closed it once when it has ended, and not
\* before.
ClosedOnce(s) ==
    streams[s].closes = IF streams[s].hpc = "done" THEN 1 ELSE 0

\* The remote side of stream t can end it, or the POST for t can return, or
\* the read of t has its end of stream or error and returns: what the
\* handler of t waits for depends on t alone.
CanGoOn(t) ==
    \/ ENABLED (\E how \in {"closed", "reset"} : RemoteEnds(t, how))
    \/ ENABLED (\E ok \in BOOLEAN : DirectPostReturns(t, ok))
    \/ streams[t].hpc = "reading" /\ streams[t].remote /= "open"

DirectFailureState ==
    \A s \in 1..Len(streams) :
        /\ ReadOrParseFailed(s) => DirectPosts(s) = {}
        /\ ClosedOnce(s)
        /\ streams[s].hpc = "done" =>
              streams[s].note \in {"read_error", "invalid", "forward_error",
                                   "forwarded"}
        /\ streams[s].hpc /= "done" => CanGoOn(s)

\* C22: a stream whose read fails or whose content is not JSON causes no
\* POST; the handler closes its stream exactly once, when it ends, on every
\* path (read error, parse error, forward error, success); a step of one
\* stream changes no other stream, and a stream whose handler has not ended
\* can always go on, whatever happened to the others.
C22_DirectFailureHandling ==
    /\ []DirectFailureState
    /\ [][\A s \in 1..Len(streams) :
             streams'[s] /= streams[s] =>
                \A t \in 1..Len(streams) : t /= s => streams'[t] = streams[t]]_vars

\* One stream ended on a parse error and was closed; a later one was then
\* forwarded and closed.
C22_Witness ==
    /\ Len(streams) = 2
    /\ streams[1].note = "invalid" /\ streams[1].closes = 1
    /\ DirectPosts(1) = {}
    /\ streams[2].note = "forwarded" /\ streams[2].closes = 1
    /\ Cardinality(DirectPosts(2)) = 1

--------------------------------------------------------------------------
\* Read to completion on a direct stream.

\* Nothing is POSTed for a stream that is being read or that the remote
\* side has not closed; a POST carries the `payload` member of everything
\* that was read.
ReadBeforeForward ==
    \A s \in 1..Len(streams) :
        /\ (streams[s].hpc = "reading" \/ streams[s].remote /= "closed") =>
              DirectPosts(s) = {}
        /\ streams[s].remote = "open" => streams[s].hpc = "reading"
        /\ \A j \in DirectPosts(s) :
              /\ ~Unmarshal(streams[s].buf).err
              /\ sink[streams[s].node][j].body =
                    Marshal(Index(Unmarshal(streams[s].buf).v, "payload"))

\* C23: the handler forwards only after the remote side has closed the
\* stream: no POST exists for a stream that is still being read, and a stream
\* never closed by the sender is never forwarded; the bytes are taken in the
\* order written (what was read followed by what is still to come is always
\* the data the sender writes), nothing is read after the end of the stream,
\* and what is POSTed is parsed from all the bytes read.
C23_ReadToCompletion ==
    /\ []ReadBeforeForward
    /\ [][\A s \in 1..Len(streams) :
             /\ streams'[s].buf \o streams'[s].pending =
                   streams[s].buf \o streams[s].pending
             /\ Len(streams'[s].buf) >= Len(streams[s].buf)
             /\ streams[s].remote /= "open" => streams'[s].buf = streams[s].buf
             /\ DirectPosts(s)' /= DirectPosts(s) =>
                   streams[s].remote = "closed"]_vars

\* One stream was written in pieces, closed and then forwarded whole, while
\* another, half written and not closed, has caused no POST.
C23_Witness ==
    /\ Len(streams) = 2
    /\ streams[1].buf = DirectToSelf /\ streams[1].remote = "closed"
    /\ streams[1].note = "forwarded" /\ Cardinality(DirectPosts(1)) = 1
    /\ streams[2].remote = "open"
    /\ streams[2].buf /= <<>> /\ streams[2].pending /= <<>>
    /\ DirectPosts(2) = {}

--------------------------------------------------------------------------
\* Order of the broadcast forwards.

\* The POSTs node n issued for broadcast messages, and those of them that
\* have returned (with or without an error).
BroadcastForwards(n) ==
    {k \in 1..Len(sink[n]) : sink[n][k].via = "broadcast"}
ForwardsReturned(n) ==
    Cardinality({k \in 1..Len(dlog[n]) :
                    dlog[n][k] \in {"forwarded", "forward_error"}})
InFlight(n) == Cardinality(BroadcastForwards(n)) - ForwardsReturned(n)

\* The broadcast POSTs of a node are in the order of delivery, and at most
\* one of them is outstanding: the one the loop is waiting for.
ForwardsInOrder ==
    \A n \in Node :
        /\ \A j, k \in BroadcastForwards(n) :
              j < k => sink[n][j].ref < sink[n][k].ref
        /\ \A k \in BroadcastForwards(n) : sink[n][k].ref <= rd[n]
        /\ InFlight(n) = IF dpc[n] = "posting" THEN 1 ELSE 0

\* C24: a node POSTs the broadcast messages addressed to it in the order
\* the subscription delivered them, with at most one POST outstanding: the
\* loop takes message n+1 from the subscription only when no POST is
\* outstanding, and it takes the messages one by one in order.
C24_BroadcastOrder ==
    /\ []ForwardsInOrder
    /\ [][\A n \in Node :
             rd'[n] /= rd[n] =>
                /\ rd'[n] = rd[n] + 1
                /\ InFlight(n) = 0
                /\ dpc[n] = "next"]_vars

\* Two messages addressed to Y were delivered; Y POSTed both, the second
\* after the POST for the first had failed.
C24_Witness ==
    /\ rd["Y"] = 2 /\ dpc["Y"] = "next"
    /\ Cardinality(BroadcastForwards("Y")) = 2
    /\ dlog["Y"] = <<"forward_error", "forwarded">>

--------------------------------------------------------------------------
\* Liveness of the broadcast drain loop.

\* The sink answers or fails every POST of the drain loops.
SinkAnswers == \A n \in Node : WF_vars(\E ok \in BOOLEAN : PostReturns(n, ok))

\* The subscription of no node returns an error.
NoSubscriptionError == [](\A n \in Node : dpc[n] /= "stopped")

\* Message i was delivered on the topic and is addressed to node n.
DeliveredTo(n, i) ==
    /\ i <= Len(msgs)
    /\ BroadcastDecision(did[n], msgs[i].data).post

\* Every delivered message addressed to a node is eventually POSTed by it.
EveryMessageForwarded ==
    \A n \in Node : \A i \in 1..MaxEvents :
        DeliveredTo(n, i) ~> (PostsFor(n, i) /= {})

\* A loop stops only at Next, with no POST outstanding; a stopped loop stays
\* stopped, takes no message and issues no POST.
StopsOnlyAtNext ==
    [][\A n \in Node :
          /\ (dpc'[n] = "stopped" /\ dpc[n] /= "stopped") =>
                /\ dpc[n] = "next"
                /\ rd'[n] = rd[n] /\ dlog'[n] = dlog[n] /\ sink'[n] = sink[n]
          /\ dpc[n] = "stopped" =>
                /\ dpc'[n] = "stopped"
                /\ rd'[n] = rd[n] /\ dlog'[n] = dlog[n]
                /\ BroadcastForwards(n)' = BroadcastForwards(n)]_vars

\* C25: when the sink answers every POST and no subscription returns an
\* error, every broadcast message delivered and addressed to a node is
\* eventually POSTed by it; a drain loop stops only when Next returns an
\* error, and a stopped loop never forwards a later message.
C25_DrainLiveness ==
    /\ (SinkAnswers /\ NoSubscriptionError) => EveryMessageForwarded
    /\ StopsOnlyAtNext

\* The loop of A has stopped before it took a message addressed to A, which
\* is never POSTed, while Y has POSTed the message addressed to it that came
\* after one whose POST failed.
C25_Witness ==
    /\ dpc["A"] = "stopped" /\ rd["A"] = 0 /\ sink["A"] = <<>>
    /\ \E i \in 1..Len(msgs) : DeliveredTo("A", i)
    /\ \E i \in 1..Len(msgs) : DeliveredTo("Y", i) /\ PostsFor("Y", i) /= {}
    /\ dlog["Y"] /= <<>>

--------------------------------------------------------------------------
\* The end of the process after the shutdown signal.

\* C26: the process takes the fatal exit of the server goroutine (log.Fatal
\* on the return of ListenAndServe, exit code 1) only when the server failed
\* to bind or serve, never when ListenAndServe returned because srv.Shutdown
\* was called: after the signal the process ends by main returning.
C26_GracefulShutdown == exit = "1" => spc = "failed"

--------------------------------------------------------------------------
\* The key the resolver returns for a peer ID derived from a key.

\* The reference is the text of the peer ID PublicKeyToPeerId derives from
\* the key of its peer.
DerivedFromKey(ref) ==
    /\ ref.enc \in {"base58", "cidv1"}
    /\ ref.peer \in Peers
    /\ PublicKeyToPeerId(RawKey(ref.peer)).err = ""
    /\ PublicKeyToPeerId(RawKey(ref.peer)).pid = MultihashOf(ref.peer)

\* C27: a call of GetPublicKeyByPeerId on the peer ID derived from a valid
\* public key k that returns a key returns the bytes of k, whichever tier
\* answered.
C27_OneKeyRepresentation ==
    (req.pc = "done" /\ req.err = "" /\ DerivedFromKey(req.ref)) =>
        req.key = RawKey(req.ref.peer)

--------------------------------------------------------------------------
\* Framing of the two send paths.

\* The body of the send-direct request that made the sender's c-th call.
BodyOfCall(c) == hreq[CHOOSE h \in 1..Len(hreq) : hreq[h].call = c].body
DirectBody(k) == ScanValue(BodyOfCall(ostreams[k].call), 1).v

\* What is written on a stream is the serialization of the request's body,
\* and the receiving node POSTs the body's `payload` member, null when it
\* has none.
DirectFraming ==
    /\ \A k \in 1..Len(ostreams) :
          ostreams[k].written \in {<<>>, <<Marshal(DirectBody(k))>>}
    /\ \A s \in 1..Len(streams) :
          /\ (streams[s].hpc \in {"posting", "done"}
                /\ streams[s].buf = Marshal(DirectBody(s))) =>
                Cardinality(DirectPosts(s)) = 1
          /\ \A j \in DirectPosts(s) :
                /\ streams[s].buf = Marshal(DirectBody(s))
                /\ sink[streams[s].node][j].body /= Marshal(DirectBody(s))
                /\ sink[streams[s].node][j].body =
                      IF \E i \in 1..Len(DirectBody(s).m) :
                            DirectBody(s).m[i].k = "payload"
                      THEN Marshal(Index(DirectBody(s), "payload"))
                      ELSE <<NullLit>>

\* The addressed node POSTs the whole body of a send request.
BroadcastFraming ==
    \A n \in DirectNode : \A i \in 1..rd[n] :
        msgs[i].src = "http" =>
            \E h \in 1..Len(http) :
                /\ http[h].attempts = <<msgs[i].data>>
                /\ Index(ScanValue(http[h].body, 1).v, "to") = JStr(did[n])
                /\ Cardinality(BroadcastPosts(n, i)) = 1
                /\ \A j \in BroadcastPosts(n, i) :
                      sink[n][j].body = Marshal(ScanValue(http[h].body, 1).v)

--------------------------------------------------------------------------
\* Identity of gateway and other services.

\* The keypair of every gateway.
GatewayKeypair ==
    [NoKeypair EXCEPT !.priv = GatewaySeed \o PublicFromSeed(GatewaySeed),
                      !.pub = PublicFromSeed(GatewaySeed)]

\* The data is a JSON object whose `to` member is the string text.
HasRecipient(data, text) ==
    /\ IsJSONObject(data)
    /\ \E i \in 1..Len(ScanValue(data, 1).v.m) :
          /\ ScanValue(data, 1).v.m[i].k = "to"
          /\ ScanValue(data, 1).v.m[i].v.t = "str"
          /\ ScanValue(data, 1).v.m[i].v.s = text

\* Message i is one node n is done with or is forwarding.
Taken(n, i) == i <= rd[n]

\* C29: a service constructed as a gateway is named `gateway` and has the
\* keypair of the constant seed, whatever keypair it was given; any other
\* service is named ToSightDID of the public key it was given and keeps
\* that keypair; a gateway POSTs a broadcast message it has taken exactly
\* when the message is an envelope whose `to` is the string gateway, so
\* two gateways both POST the same such envelope, and another service
\* POSTs exactly the envelopes whose `to` is its DID.
C29_GatewayIdentity ==
    \A n \in Node :
        /\ did[n] = svc[n].did
        /\ svc[n].isGateway = svc[n].args.isGateway
        /\ svc[n].isGateway =>
              /\ svc[n].did = GatewayDID
              /\ svc[n].keypair = GatewayKeypair
        /\ ~svc[n].isGateway =>
              /\ svc[n].did = ToSightDID(svc[n].args.kp.pub)
              /\ svc[n].keypair = svc[n].args.kp
        /\ \A i \in 1..Len(msgs) :
              Taken(n, i) =>
                 Cardinality(PostsFor(n, i)) =
                    IF HasRecipient(msgs[i].data, svc[n].did) THEN 1 ELSE 0

\* Two gateways constructed from different keypairs have both POSTed the
\* same envelope addressed to gateway, and neither has POSTed the one
\* addressed to the DID of the key one of them was given.
C29_Witness ==
    /\ svc["A"].isGateway /\ svc["Y"].isGateway
    /\ svc["A"].args.kp /= svc["Y"].args.kp
    /\ svc["A"].keypair = svc["Y"].keypair
    /\ Len(msgs) = 2 /\ rd["A"] = 2 /\ rd["Y"] = 2
    /\ msgs[1].data = EnvelopeTo(ToSightDID(svc["A"].args.kp.pub))
    /\ msgs[2].data = EnvelopeTo(GatewayDID)
    /\ \A n \in Node :
          PostsFor(n, 1) = {} /\ Cardinality(PostsFor(n, 2)) = 1

====
